---------------------------- MODULE Spec2Model ----------------------------
(***************************************************************************)
(* A model of the Cursor text-manipulation engine of headless-mde          *)
(* (lib/Cursor.ts, lib/utils.ts).  A string is a sequence of one-character *)
(* strings; offsets are 0-based as in the source, so the character at      *)
(* offset i of s is s[i+1].                                                *)
(***************************************************************************)
EXTENDS Integers, Sequences, FiniteSets, TLC

\* Longest buffer the model explores.
MaxLen == 4

\* const MARKER = `\u0000`
MARKER == "NUL"

\* The separator of value.split('\n') and join('\n').
NL == "\n"

\* The value null of execRaw's selectionStart / selectionEnd (every non-null
\* value of either is >= 0).
NullOffset == -1

\* The value null of the selection getter and of lineAt.
Null == [null |-> TRUE]

\* The value undefined, as Array.prototype.find returns it.
Undefined == [undefined |-> TRUE]

Min(a, b) == IF a <= b THEN a ELSE b

Max(a, b) == IF a >= b THEN a ELSE b

\* All strings over chars of length at most n.
Strings(chars, n) == UNION {[1..k -> chars] : k \in 0..n}

(***************************************************************************)
(* The string primitives of the language the source uses.                  *)
(***************************************************************************)

\* A relative index of slice: negative counts from the end, all clamped.
RelativeIndex(i, n) == IF i < 0 THEN Max(n + i, 0) ELSE Min(i, n)

\* String.prototype.slice(from, to)
Slice(s, from, to) ==
    LET a == RelativeIndex(from, Len(s))
        b == RelativeIndex(to, Len(s))
    IN  IF a >= b THEN <<>> ELSE SubSeq(s, a + 1, b)

\* String.prototype.slice(from)
SliceFrom(s, from) == Slice(s, from, Len(s))

\* String.prototype.indexOf(c) for a one-character c: -1 when absent.
IndexOf(s, c) ==
    LET at == {i \in 1..Len(s) : s[i] = c}
    IN  IF at = {} THEN -1 ELSE (CHOOSE i \in at : \A j \in at : i <= j) - 1

\* String.prototype.lastIndexOf(c) for a one-character c: -1 when absent.
LastIndexOf(s, c) ==
    LET at == {i \in 1..Len(s) : s[i] = c}
    IN  IF at = {} THEN -1 ELSE (CHOOSE i \in at : \A j \in at : i >= j) - 1

\* String.prototype.includes(c)
Includes(s, c) == IndexOf(s, c) # -1

\* text.replace(c, ''): the first c only.
RemoveFirst(s, c) ==
    IF \E i \in DOMAIN s : s[i] = c
    THEN LET at == CHOOSE i \in DOMAIN s : s[i] = c /\ \A j \in 1..(i - 1) : s[j] /= c
         IN  SubSeq(s, 1, at - 1) \o SubSeq(s, at + 1, Len(s))
    ELSE s

\* text.replace(new RegExp(c, 'g'), '')
RemoveAll(s, c) == SelectSeq(s, LAMBDA x : x # c)

\* String.prototype.split('\n')
RECURSIVE Split(_)
Split(s) ==
    LET i == IndexOf(s, NL)
    IN  IF i = -1 THEN <<s>>
        ELSE <<Slice(s, 0, i)>> \o Split(SliceFrom(s, i + 1))

\* Array.prototype.join('\n')
RECURSIVE Join(_)
Join(parts) ==
    IF parts = <<>> THEN <<>>
    ELSE IF Len(parts) = 1 THEN parts[1]
    ELSE parts[1] \o <<NL>> \o Join(Tail(parts))

\* Number(b) for a boolean b
Number(b) == IF b THEN 1 ELSE 0

(***************************************************************************)
(* utils.ts                                                                *)
(***************************************************************************)

isBtwOrEq(v, a, b) == v >= Min(a, b) /\ v <= Max(a, b)

\* A clamp with no upper limit.
clampFromBelow(val, min, max) == Max(min, val)

\* clamp(val, min, max) = Math.min(Math.max(min, val), max)
clamp(val, min, max) == Min(Max(min, val), max)

(***************************************************************************)
(* Numbers.  A number parsed from a string is NaN or a non-negative        *)
(* integer, kept as its decimal digits so that it can be as large as a     *)
(* double can hold exactly and larger.  The doubles from 2^53 to 2^54 are  *)
(* the even integers; the digits model numbers below 2^54.                 *)
(***************************************************************************)

DigitChars == <<"0", "1", "2", "3", "4", "5", "6", "7", "8", "9">>

IsDigit(c) == \E d \in 1..10 : DigitChars[d] = c

DigitOf(c) == (CHOOSE d \in 1..10 : DigitChars[d] = c) - 1

NaN == [nan |-> TRUE, digits |-> <<>>]

\* 2^53 = 9007199254740992
TwoTo53 == <<9, 0, 0, 7, 1, 9, 9, 2, 5, 4, 7, 4, 0, 9, 9, 2>>

\* The digits without leading zeros.
RECURSIVE StripZeros(_)
StripZeros(ds) == IF Len(ds) > 1 /\ ds[1] = 0 THEN StripZeros(Tail(ds)) ELSE ds

\* The digits of n + 1, for the digits of n.
RECURSIVE Succ(_)
Succ(ds) ==
    IF ds = <<>> THEN <<1>>
    ELSE IF ds[Len(ds)] < 9 THEN [ds EXCEPT ![Len(ds)] = @ + 1]
    ELSE Append(Succ(SubSeq(ds, 1, Len(ds) - 1)), 0)

\* a < b for digits without leading zeros.
RECURSIVE Less(_, _)
Less(a, b) ==
    IF Len(a) /= Len(b) THEN Len(a) < Len(b)
    ELSE IF a = <<>> THEN FALSE
    ELSE IF a[1] /= b[1] THEN a[1] < b[1]
    ELSE Less(Tail(a), Tail(b))

Mod4(ds) == (IF Len(ds) > 1 THEN 10 * ds[Len(ds) - 1] + ds[Len(ds)] ELSE ds[Len(ds)]) % 4

\* The double nearest to the integer, ties to the even mantissa: exact up
\* to 2^53, and the nearest even integer above (the multiple of 4 on a tie).
ToDouble(ds) ==
    IF ~Less(TwoTo53, ds) \/ ds[Len(ds)] % 2 = 0 THEN ds
    ELSE IF Mod4(ds) = 1 THEN [ds EXCEPT ![Len(ds)] = @ - 1]
    ELSE Succ(ds)

\* The longest run of digits the string starts with.
RECURSIVE LeadingDigits(_)
LeadingDigits(s) ==
    IF s = <<>> \/ ~IsDigit(s[1]) THEN <<>>
    ELSE <<DigitOf(s[1])>> \o LeadingDigits(Tail(s))

\* A parseInt that reads one digit.
parseIntOfFirstDigit(s) ==
    IF LeadingDigits(s) = <<>> THEN NaN
    ELSE [nan |-> FALSE, digits |-> <<LeadingDigits(s)[1]>>]

\* parseInt(s) for a string with no sign and no leading whitespace.
parseInt(s) ==
    IF LeadingDigits(s) = <<>> THEN NaN
    ELSE [nan |-> FALSE, digits |-> ToDouble(StripZeros(LeadingDigits(s)))]

\* number + 1
PlusOne(number) ==
    IF number.nan THEN NaN ELSE [nan |-> FALSE, digits |-> ToDouble(Succ(number.digits))]

\* `${number}`
NumberToString(number) ==
    IF number.nan THEN <<"N", "a", "N">>
    ELSE [i \in DOMAIN number.digits |-> DigitChars[number.digits[i] + 1]]

WhiteSpace == {" ", NL}

\* String.prototype.trim
RECURSIVE trim(_)
trim(s) ==
    IF s = <<>> THEN s
    ELSE IF s[1] \in WhiteSpace THEN trim(Tail(s))
    ELSE IF s[Len(s)] \in WhiteSpace THEN trim(SubSeq(s, 1, Len(s) - 1))
    ELSE s

\* text.replace(/^[chars]+|[chars]+$/g, '')
RECURSIVE trimChars(_, _)
trimChars(text, chars) ==
    IF text = <<>> THEN text
    ELSE IF \E i \in DOMAIN chars : text[1] = chars[i] THEN trimChars(Tail(text), chars)
    ELSE IF \E i \in DOMAIN chars : text[Len(text)] = chars[i]
    THEN trimChars(SubSeq(text, 1, Len(text) - 1), chars)
    ELSE text

\* String.prototype.split('.')
RECURSIVE SplitOnDot(_)
SplitOnDot(s) ==
    IF IndexOf(s, ".") = -1 THEN <<s>>
    ELSE <<Slice(s, 0, IndexOf(s, "."))>> \o SplitOnDot(SliceFrom(s, IndexOf(s, ".") + 1))

\* Array.prototype.join('.')
RECURSIVE JoinWithDot(_)
JoinWithDot(parts) ==
    IF parts = <<>> THEN <<>>
    ELSE IF Len(parts) = 1 THEN parts[1]
    ELSE parts[1] \o <<".">> \o JoinWithDot(Tail(parts))

\* const parts = trimChars(prefix.trim(), '.').split('.')
PrefixParts(prefix) == SplitOnDot(trimChars(trim(prefix), <<".">>))

\* The result for parts and currentCount.
IncrementedPrefix(parts, currentCount) ==
    IF Len(parts) = 1 THEN NumberToString(PlusOne(currentCount)) \o <<".">>
    ELSE JoinWithDot(SubSeq(parts, 1, Len(parts) - 1)) \o <<".">>
           \o NumberToString(PlusOne(currentCount)) \o <<".">>

getIncrementedOrderedListPrefix(prefix) ==
    IncrementedPrefix(PrefixParts(prefix),
                      parseInt(PrefixParts(prefix)[Len(PrefixParts(prefix))]))

(***************************************************************************)
(* The text surface: the textarea's value and selection.  The setters      *)
(* behave as the DOM's: an offset past the end (or negative, which the     *)
(* unsigned conversion turns into a huge one) points at the end, and a     *)
(* start after the end collapses the selection onto the end.               *)
(***************************************************************************)

\* An offset taken as it is given.
OffsetAsGiven(v, n) == v

ClampOffset(v, n) == IF v < 0 \/ v > n THEN n ELSE v

setSelectionRange(el, start, end) ==
    LET n == Len(el.value)
        e == ClampOffset(end, n)
        s == ClampOffset(start, n)
    IN  [el EXCEPT !.selectionStart = IF s > e THEN e ELSE s,
                   !.selectionEnd = e]

\* element.selectionStart = v: a negative v, huge once converted, takes the
\* end along with it.
SetSelectionStart(el, v) ==
    setSelectionRange(el, v, IF v < 0 \/ el.selectionEnd < v THEN v ELSE el.selectionEnd)

\* element.selectionEnd = v
SetSelectionEnd(el, v) == setSelectionRange(el, el.selectionStart, v)

\* element.value = v: a changed value moves the caret to the end of the text.
SetValue(el, v) ==
    IF v = el.value THEN el
    ELSE [el EXCEPT !.value = v,
                    !.selectionStart = Len(v),
                    !.selectionEnd = Len(v)]

(***************************************************************************)
(* Cursor: the derived data.  A getter's locals that the source names once *)
(* and reads several times are parameters of a helper here, so that each   *)
(* is computed once.                                                       *)
(***************************************************************************)

\* const isLastLine = index === arr.length - 1
IsLastLine(arr, index) == index = Len(arr) - 1

\* The line length without the newline that ends it: `content.length`.
LineLengthWithoutNewline(arr, index) == Len(arr[index + 1])

\* const lineLength = content.length + Number(!isLastLine)
LineLength(arr, index) == Len(arr[index + 1]) + Number(~IsLastLine(arr, index))

\* currentLength when the reduce reaches index: the lineLength of every
\* earlier line, added up by `currentLength += lineLength`.
RECURSIVE CurrentLength(_, _)
CurrentLength(arr, index) ==
    IF index = 0 THEN 0
    ELSE CurrentLength(arr, index - 1) + LineLength(arr, index - 1)

\* The Line the reduce pushes for arr[index].
LineOf(arr, index, currentLength) ==
    [text |-> arr[index + 1],
     lineNumber |-> index + 1,
     startsAt |-> currentLength,
     endsAt |-> currentLength + LineLength(arr, index) - Number(~IsLastLine(arr, index))]

LinesOfParts(arr) ==
    [i \in 1..Len(arr) |-> LineOf(arr, i - 1, CurrentLength(arr, i - 1))]

\* get lines()
Lines(text) == LinesOfParts(Split(text))

\* The filter with only its first two tests: a line is selected when an end
\* of the selection is inside it.
SelectedByItsEnds(line, from, to) ==
    \/ isBtwOrEq(from, line.startsAt, line.endsAt)
    \/ isBtwOrEq(to, line.startsAt, line.endsAt)

\* The filter of get selection()
SelectedBy(line, from, to) ==
    \/ isBtwOrEq(from, line.startsAt, line.endsAt)
    \/ isBtwOrEq(to, line.startsAt, line.endsAt)
    \/ isBtwOrEq(line.startsAt, from, to)
    \/ isBtwOrEq(line.endsAt, from, to)

SelectionOf(text, from, to) ==
    IF from = to THEN Null
    ELSE [lines |-> SelectSeq(Lines(text), LAMBDA line : SelectedBy(line, from, to)),
          text |-> Slice(text, from, to),
          selectionStart |-> from,
          selectionEnd |-> to]

\* get selection()
Selection(el) == SelectionOf(el.value, el.selectionStart, el.selectionEnd)

\* The find with the line's newline counted into it:
\* `position <= line.endsAt + 1`.
FindLineThroughNewline(lines, position) ==
    IF \E i \in DOMAIN lines :
           position >= lines[i].startsAt /\ position <= lines[i].endsAt + 1
    THEN lines[CHOOSE i \in DOMAIN lines :
                  /\ position >= lines[i].startsAt /\ position <= lines[i].endsAt + 1
                  /\ \A j \in 1..(i - 1) :
                        ~(position >= lines[j].startsAt
                            /\ position <= lines[j].endsAt + 1)]
    ELSE Undefined

\* this.lines.find((line) => position >= line.startsAt && position <= line.endsAt)
FindLine(lines, position) ==
    IF \E i \in DOMAIN lines :
           position >= lines[i].startsAt /\ position <= lines[i].endsAt
    THEN lines[CHOOSE i \in DOMAIN lines :
                  /\ position >= lines[i].startsAt /\ position <= lines[i].endsAt
                  /\ \A j \in 1..(i - 1) :
                        ~(position >= lines[j].startsAt /\ position <= lines[j].endsAt)]
    ELSE Undefined

\* get position()
Position(el) ==
    [cursorAt |-> el.selectionStart,
     line |-> FindLine(Lines(el.value), el.selectionStart)]

\* The lookup that never fails: a number past the last line taken for the
\* last line.
LineAtInOrLast(lines, lineNumber) ==
    IF lineNumber \in DOMAIN lines THEN lines[lineNumber] ELSE lines[Len(lines)]

\* this.lines[lineNumber - 1] ?? null
LineAtIn(lines, lineNumber) ==
    IF lineNumber \in DOMAIN lines THEN lines[lineNumber] ELSE Null

\* lineAt(lineNumber)
LineAt(el, lineNumber) == LineAtIn(Lines(el.value), lineNumber)

(***************************************************************************)
(* utils.ts: fireInput.  native says whether document.execCommand exists   *)
(* and reports success; otherwise the manual fallback runs.  writes counts *)
(* the substitutions made to the value and inputs the 'input'              *)
(* notifications the surface emits during the current call.                *)
(***************************************************************************)

\* document.execCommand('insertText', false, text): replaces the surface's
\* current selection, leaves the caret after the text and notifies once.
ExecCommandInsertText(el, text) ==
    [el EXCEPT !.value = Slice(el.value, 0, el.selectionStart) \o text
                            \o SliceFrom(el.value, el.selectionEnd),
               !.selectionStart = el.selectionStart + Len(text),
               !.selectionEnd = el.selectionStart + Len(text),
               !.writes = @ + 1,
               !.inputs = @ + 1]

\* input.dispatchEvent(event) of the fallback
DispatchInput(el) == [el EXCEPT !.inputs = @ + 1]

\* input.value = newValue, counted as one substitution
AssignValue(el, v) == [SetValue(el, v) EXCEPT !.writes = @ + 1]

\* input.selectionStart = start; input.selectionEnd = end
SetRange(el, start, end) == SetSelectionEnd(SetSelectionStart(el, start), end)

\* The insertion of fireInput, on the surface with the range selected.
ReplaceRange(ranged, text, start, end, native) ==
    IF native THEN ExecCommandInsertText(ranged, text)
    ELSE DispatchInput(AssignValue(ranged,
             Slice(ranged.value, 0, start) \o text \o SliceFrom(ranged.value, end)))

fireInput(el, text, start, end, native) ==
    SetRange(ReplaceRange(SetRange(el, start, end), text, start, end, native),
             start + Len(text), start + Len(text))

(***************************************************************************)
(* Cursor: markers                                                         *)
(***************************************************************************)

normalizeSelection(text, defaultBehavior) ==
    IF Includes(text, MARKER) THEN text
    ELSE CASE defaultBehavior = "TO_START" -> <<MARKER>> \o text
           [] defaultBehavior = "TO_END" -> text \o <<MARKER>>
           [] defaultBehavior = "SELECT_ALL" -> <<MARKER>> \o text \o <<MARKER>>

\* execRaw taking the last marker's index as it stands in the raw text, the
\* first marker still counted: `lIndex` for `lIndex - 1`.
RawDataEndAtMarker(raw, fIndex, lIndex) ==
    [text |-> IF fIndex # -1 /\ lIndex # -1 THEN RemoveAll(raw, MARKER) ELSE raw,
     selectionStart |-> IF fIndex # -1 THEN fIndex ELSE NullOffset,
     selectionEnd |-> IF fIndex # -1
                      THEN (IF lIndex = -1 \/ lIndex = fIndex
                            THEN NullOffset ELSE lIndex)
                      ELSE NullOffset]

\* The result of execRaw for the marker indexes found.
RawData(raw, fIndex, lIndex) ==
    [text |-> IF fIndex # -1 /\ lIndex # -1 THEN RemoveAll(raw, MARKER) ELSE raw,
     selectionStart |-> IF fIndex # -1 THEN fIndex ELSE NullOffset,
     selectionEnd |-> IF fIndex # -1
                      THEN (IF lIndex = -1 \/ lIndex = fIndex
                            THEN NullOffset ELSE lIndex - 1)
                      ELSE NullOffset]

execRaw(raw) == RawData(raw, IndexOf(raw, MARKER), LastIndexOf(raw, MARKER))

\* The tail without the offset of the replaced range: the selection placed
\* as if the text had been inserted at the start of the buffer.
PlaceSelectionWithoutOffset(el, offset, data) ==
    IF data.selectionStart # NullOffset /\ data.selectionEnd # NullOffset
    THEN SetRange(el, data.selectionStart, data.selectionEnd)
    ELSE el

\* The recurring tail of the mutating methods:
\*   if (data.selectionStart !== null && data.selectionEnd !== null) { ... }
PlaceSelection(el, offset, data) ==
    IF data.selectionStart # NullOffset /\ data.selectionEnd # NullOffset
    THEN SetRange(el, offset + data.selectionStart, offset + data.selectionEnd)
    ELSE el

\* The tail of insertAtCursor without the second marker: the caret always
\* collapsed, `cursorAt + data.selectionStart` at both ends.
PlaceCaretCollapsed(el, offset, data) ==
    IF data.selectionStart # NullOffset
    THEN SetRange(el, offset + data.selectionStart, offset + data.selectionStart)
    ELSE el

\* The tail of insertAtCursor:
\*   if (data.selectionStart !== null) { ... data.selectionEnd ?? data.selectionStart }
PlaceCaret(el, offset, data) ==
    IF data.selectionStart # NullOffset
    THEN SetRange(el, offset + data.selectionStart,
                  offset + (IF data.selectionEnd # NullOffset
                            THEN data.selectionEnd ELSE data.selectionStart))
    ELSE el

(***************************************************************************)
(* Cursor: insert                                                          *)
(***************************************************************************)

\* The substitution of insert and insertAtCursor: the direct assignment of
\* the test build, fireInput otherwise.
Substitute(el, text, start, end, env, native) ==
    IF env = "test"
    THEN AssignValue(el, Slice(el.value, 0, start) \o text \o SliceFrom(el.value, end))
    ELSE fireInput(el, text, start, end, native)

InsertData(el, data, cursorAt, env, native) ==
    PlaceCaret(Substitute(el, data.text, cursorAt, cursorAt, env, native), cursorAt, data)

insertAtCursor(el, content, env, native) ==
    InsertData(el, execRaw(normalizeSelection(content, "TO_END")),
               Position(el).cursorAt, env, native)

ReplaceSelected(el, data, start, end, env, native) ==
    PlaceSelection(Substitute(el, data.text, start, end, env, native), start, data)

insert(el, content, env, native) ==
    IF Selection(el) = Null THEN insertAtCursor(el, content, env, native)
    ELSE ReplaceSelected(el, execRaw(normalizeSelection(content, "TO_END")),
                         Selection(el).selectionStart, Selection(el).selectionEnd,
                         env, native)

(***************************************************************************)
(* Cursor: wrap.  A markup is <<s>> for the string s and <<p, s>> for the  *)
(* array [p, s]; options carries the set of keys the caller gave.          *)
(***************************************************************************)

\* const [prefix, suffix] = Array.isArray(markup) ? markup : [markup, markup]
PrefixOf(markup) == markup[1]

SuffixOf(markup) == IF Len(markup) = 2 THEN markup[2] ELSE markup[1]

\* this.selection?.selectionStart ?? this.position.cursorAt
RangeStart(el) ==
    IF Selection(el) # Null THEN Selection(el).selectionStart ELSE Position(el).cursorAt

\* this.selection?.selectionEnd ?? this.position.cursorAt
RangeEnd(el) ==
    IF Selection(el) # Null THEN Selection(el).selectionEnd ELSE Position(el).cursorAt

\* The bounds check one too strict at the end of the buffer:
\* `end + suffix.length > this.value.length - 1`.
IsWrappedAtShortOfEnd(text, prefix, suffix, start, end) ==
    IF start - Len(prefix) < 0 \/ end + Len(suffix) > Len(text) - 1
    THEN FALSE
    ELSE /\ Slice(text, start - Len(prefix), start) = prefix
         /\ Slice(text, end, end + Len(suffix)) = suffix

IsWrappedAt(text, prefix, suffix, start, end) ==
    IF start - Len(prefix) < 0 \/ end - 1 + Len(suffix) > Len(text) - 1
    THEN FALSE
    ELSE /\ Slice(text, start - Len(prefix), start) = prefix
         /\ Slice(text, end, end + Len(suffix)) = suffix

isSelectedWrappedWith(el, markup) ==
    IsWrappedAt(el.value, PrefixOf(markup), SuffixOf(markup), RangeStart(el), RangeEnd(el))

\* const { unwrap = true, placeholder = '' } = options ?? {}
UnwrapOption(options) == IF "unwrap" \in options.given THEN options.unwrap ELSE TRUE

PlaceholderOption(options) ==
    IF "placeholder" \in options.given THEN options.placeholder ELSE <<>>

\* The branch wrap takes: `this.isSelectedWrappedWith(markup) && unwrap`
WrapBranch(el, markup, options) ==
    IF isSelectedWrappedWith(el, markup) /\ UnwrapOption(options)
    THEN "unwrap" ELSE "wrap"

\* fireInput(..., data.text, from, to) and the selection placed from data
ReplaceWith(el, data, from, to, native) ==
    PlaceSelection(fireInput(el, data.text, from, to, native), from, data)

\* text.slice(start, end) || placeholder
InnerOr(selected, placeholder) == IF selected # <<>> THEN selected ELSE placeholder

WrapRange(el, prefix, suffix, start, end, placeholder, native) ==
    ReplaceWith(el,
                execRaw(prefix \o <<MARKER>>
                          \o InnerOr(Slice(el.value, start, end), placeholder)
                          \o <<MARKER>> \o suffix),
                start, end, native)

\* The unwrap that leaves the suffix in place: the replaced range ends at
\* `end` for `end + suffix.length`.
UnwrapRangeKeepingSuffix(el, prefix, suffix, start, end, native) ==
    ReplaceWith(el, execRaw(<<MARKER>> \o Slice(el.value, start, end) \o <<MARKER>>),
                start - Len(prefix), end, native)

UnwrapRange(el, prefix, suffix, start, end, native) ==
    ReplaceWith(el, execRaw(<<MARKER>> \o Slice(el.value, start, end) \o <<MARKER>>),
                start - Len(prefix), end + Len(suffix), native)

wrap(el, markup, options, native) ==
    IF WrapBranch(el, markup, options) = "unwrap"
    THEN UnwrapRange(el, PrefixOf(markup), SuffixOf(markup),
                     RangeStart(el), RangeEnd(el), native)
    ELSE WrapRange(el, PrefixOf(markup), SuffixOf(markup),
                   RangeStart(el), RangeEnd(el), PlaceholderOption(options), native)

(***************************************************************************)
(* Command handlers: what they make of a line.  A headline prefix is one   *)
(* to six '#' and a space; a numeric prefix is digits, a dot and a space;  *)
(* a quote prefix is '> '.                                                 *)
(***************************************************************************)

\* '#'.repeat(n)
Hashes(n) == [i \in 1..n |-> "#"]

\* The number of '#' at the start of the text.
RECURSIVE LeadingHashes(_)
LeadingHashes(text) ==
    IF text = <<>> \/ text[1] # "#" THEN 0 ELSE 1 + LeadingHashes(Tail(text))

\* The level of the line's headline prefix; 0 when it has none.
HeadlineLevel(text) ==
    IF /\ LeadingHashes(text) \in 1..6
       /\ Len(text) > LeadingHashes(text)
       /\ text[LeadingHashes(text) + 1] = " "
    THEN LeadingHashes(text)
    ELSE 0

\* headlinePlaceholder: (lvl) => 'headline ' + lvl
headlinePlaceholder(lvl) ==
    <<"h", "e", "a", "d", "l", "i", "n", "e", " ", DigitChars[lvl + 1]>>

\* The line of a headline command of the requested level: the prefix of
\* the target level stripped, one of another level replaced, else added.
HeadlineLine(text, level) ==
    LET target == clamp(level, 1, 6)
        current == HeadlineLevel(text)
    IN  IF current = target THEN SliceFrom(text, current + 1)
        ELSE IF current > 0
        THEN Hashes(target) \o <<" ">> \o SliceFrom(text, current + 1)
        ELSE Hashes(target) \o <<" ">>
               \o (IF text = <<>> THEN headlinePlaceholder(target) ELSE text)

\* The length of the line's numeric prefix; 0 when it has none.
NumericPrefixLength(text) ==
    IF /\ LeadingDigits(text) # <<>>
       /\ Len(text) >= Len(LeadingDigits(text)) + 2
       /\ text[Len(LeadingDigits(text)) + 1] = "."
       /\ text[Len(LeadingDigits(text)) + 2] = " "
    THEN Len(LeadingDigits(text)) + 2
    ELSE 0

\* The number of the i-th line of a list: '1.' and then each the
\* increment of the one before.
RECURSIVE OrderedListPrefix(_)
OrderedListPrefix(i) ==
    IF i <= 1 THEN <<"1", ".">>
    ELSE getIncrementedOrderedListPrefix(OrderedListPrefix(i - 1))

\* The line of the ordered-list command: the numbering removed when the
\* first line of the run has one, else the number of the line put first.
OrderedListLine(line, index, currentLines) ==
    IF NumericPrefixLength(currentLines[1].text) > 0
    THEN SliceFrom(line.text, NumericPrefixLength(line.text))
    ELSE OrderedListPrefix(index + 1) \o <<" ">> \o line.text

BLOCK_QUOTES_PREFIX == <<">", " ">>

\* blockQuotesPlaceholder: 'quote'
blockQuotesPlaceholder == <<"q", "u", "o", "t", "e">>

\* The line of the block-quotes command.  A line that has the prefix
\* comes out as it went in: '> quoted' stays '> quoted'.
BlockQuotesLine(text) ==
    IF Slice(text, 0, 2) = BLOCK_QUOTES_PREFIX THEN text
    ELSE BLOCK_QUOTES_PREFIX \o (IF text = <<>> THEN blockQuotesPlaceholder ELSE text)

(***************************************************************************)
(* Cursor: replaceCurrentLines.  A callback is one of a few named          *)
(* functions; its result is [null |-> TRUE] for null and else carries the  *)
(* returned string.                                                        *)
(***************************************************************************)

\* 'a'.repeat(n)
Repeat(n) == [i \in 1..n |-> "a"]

Returned(text) == [null |-> FALSE, text |-> text]

ReturnedNull == [null |-> TRUE, text |-> <<>>]

Callbacks == {"prepend", "index", "lineNumber", "empty", "null", "dropFirst", "caret"}

CallCallback(callback, line, index, currentLines) ==
    CASE callback = "prepend" -> Returned(<<"a">> \o line.text)
      [] callback = "index" -> Returned(Repeat(index))
      [] callback = "lineNumber" -> Returned(Repeat(line.lineNumber))
      [] callback = "empty" -> Returned(<<>>)
      [] callback = "null" -> ReturnedNull
      [] callback = "dropFirst" -> IF index = 0 THEN ReturnedNull ELSE Returned(line.text)
      [] callback = "caret" -> Returned(<<"a", MARKER>> \o line.text)
      [] callback = "orderedList" -> Returned(OrderedListLine(line, index, currentLines))

\* The option defaulting the other way: `selectReplaced = true`.
SelectReplacedByDefault(options) ==
    IF "selectReplaced" \in options.given THEN options.selectReplaced ELSE TRUE

\* const { selectReplaced = false } = options ?? {}
SelectReplacedOption(options) ==
    IF "selectReplaced" \in options.given THEN options.selectReplaced ELSE FALSE

\* The selected lines taken to be the caret's line alone.
SelectedLinesOfCaret(el) == <<LineAt(el, Position(el).line.lineNumber)>>

\* this.selection?.lines ?? [this.lineAt(this.position.line.lineNumber)!]
SelectedLines(el) ==
    IF Selection(el) # Null THEN Selection(el).lines
    ELSE <<LineAt(el, Position(el).line.lineNumber)>>

\* selectedLines.map((line, index) => callback.call(this, line, index, selectedLines))
MapCallback(selectedLines, callback) ==
    [i \in 1..Len(selectedLines) |->
        CallCallback(callback, selectedLines[i], i - 1, selectedLines)]

\* The texts of .filter((ctn) => ctn !== null)
Texts(kept) == [i \in 1..Len(kept) |-> kept[i].text]

\* The join without the filter: a null result joined in as an empty line.
JoinWithNullsAsEmpty(results) == Join(Texts(results))

\* .filter((ctn) => ctn !== null).join('\n')
JoinKept(results) == Join(Texts(SelectSeq(results, LAMBDA r : ~r.null)))

ReplaceLines(el, selectedLines, callback, selectReplaced, native) ==
    ReplaceWith(el,
                execRaw(normalizeSelection(
                    JoinKept(MapCallback(selectedLines, callback)),
                    IF selectReplaced THEN "SELECT_ALL" ELSE "TO_END")),
                selectedLines[1].startsAt,
                selectedLines[Len(selectedLines)].endsAt,
                native)

replaceCurrentLines(el, callback, options, native) ==
    ReplaceLines(el, SelectedLines(el), callback, SelectReplacedOption(options), native)

(***************************************************************************)
(* Cursor: replaceLine.  The content is [null |-> TRUE] for null and else  *)
(* carries the string.  errors counts the calls of console.error.          *)
(***************************************************************************)

\* console.error('Unknown line number: ' + lineNumber)
ConsoleError(el) == [el EXCEPT !.errors = @ + 1]

\* The branch `content === null`: execRaw('') and the range from start - 1.
RemoveLine(el, data, start, end, native) ==
    PlaceCaret(fireInput(el, data.text, start - 1, end, native), start - 1,
               [data EXCEPT !.selectionEnd = NullOffset])

ReplaceFound(el, line, content, native) ==
    IF content.null THEN RemoveLine(el, execRaw(<<>>), line.startsAt, line.endsAt, native)
    ELSE ReplaceWith(el, execRaw(normalizeSelection(content.text, "TO_END")),
                     line.startsAt, line.endsAt, native)

replaceLine(el, lineNumber, content, native) ==
    IF LineAt(el, lineNumber) = Null THEN ConsoleError(el)
    ELSE ReplaceFound(el, LineAt(el, lineNumber), content, native)

(***************************************************************************)
(* Cursor: replace.  The element carries its scroll offset here; the       *)
(* browser may scroll the textarea while the text is substituted.          *)
(***************************************************************************)

\* String.prototype.lastIndexOf(searchText)
LastIndexOfString(text, searchText) ==
    LET at == {i \in 0..(Len(text) - Len(searchText)) :
                 SubSeq(text, i + 1, i + Len(searchText)) = searchText}
    IN  IF at = {} THEN -1 ELSE CHOOSE i \in at : \A j \in at : i >= j

\* String.prototype.indexOf(searchText)
IndexOfString(text, searchText) ==
    LET at == {i \in 0..(Len(text) - Len(searchText)) :
                 SubSeq(text, i + 1, i + Len(searchText)) = searchText}
    IN  IF at = {} THEN -1 ELSE CHOOSE i \in at : \A j \in at : i <= j

\* The scroll offset as the browser leaves it after the substitution.
BrowserScroll(el, scrolled) == [el EXCEPT !.scrollTop = scrolled]

\* this.element.scrollTop = savedScrollTop
SetScrollTop(el, savedScrollTop) == [el EXCEPT !.scrollTop = savedScrollTop]

\* A replacement that leaves the scroll offset where the browser put it.
ReplaceAtWithoutRestore(el, replacement, searchStart, searchEnd, native, scrolled) ==
    BrowserScroll(fireInput(el, replacement, searchStart, searchEnd, native), scrolled)

\* The text found at searchStart: the substitution within the saved scroll
\* offset.
ReplaceAt(el, replacement, searchStart, searchEnd, native, scrolled) ==
    SetScrollTop(
        BrowserScroll(fireInput(el, replacement, searchStart, searchEnd, native), scrolled),
        el.scrollTop)

replace(el, searchText, replacement, native, scrolled) ==
    IF IndexOfString(el.value, searchText) = -1 THEN el
    ELSE ReplaceAt(el, replacement, IndexOfString(el.value, searchText),
                   IndexOfString(el.value, searchText) + Len(searchText), native, scrolled)

(***************************************************************************)
(* keyboard.ts.  A shortcut, a key name and a key code are strings like    *)
(* the buffer: sequences of characters.                                    *)
(***************************************************************************)

\* String.prototype.toLowerCase, on the letters the shortcuts and the keys
\* of the model are written in.
LowerChar(c) ==
    CASE c = "A" -> "a" [] c = "B" -> "b" [] c = "C" -> "c" [] c = "K" -> "k"
      [] c = "S" -> "s" [] c = "T" -> "t"
      [] OTHER -> c

toLowerCase(s) == [i \in DOMAIN s |-> LowerChar(s[i])]

\* String.prototype.split('+')
RECURSIVE SplitOnPlus(_)
SplitOnPlus(s) ==
    IF IndexOf(s, "+") = -1 THEN <<s>>
    ELSE <<Slice(s, 0, IndexOf(s, "+"))>> \o SplitOnPlus(SliceFrom(s, IndexOf(s, "+") + 1))

\* 'meta', 'control', 'alt', 'shift'
ModifierNames ==
    {<<"m", "e", "t", "a">>, <<"c", "o", "n", "t", "r", "o", "l">>,
     <<"a", "l", "t">>, <<"s", "h", "i", "f", "t">>}

\* navigator?.platform?.includes('Mac') ? 'meta' : 'control'
ModAlias(onMac) ==
    IF onMac THEN <<"m", "e", "t", "a">> ELSE <<"c", "o", "n", "t", "r", "o", "l">>

\* KEY_ALIASES[part] || part
Normalized(part, onMac) ==
    CASE part = <<"c", "o", "m", "m", "a", "n", "d">> -> <<"m", "e", "t", "a">>
      [] part = <<"c", "m", "d">> -> <<"m", "e", "t", "a">>
      [] part = <<"c", "t", "r", "l">> -> <<"c", "o", "n", "t", "r", "o", "l">>
      [] part = <<"o", "p", "t", "i", "o", "n">> -> <<"a", "l", "t">>
      [] part = <<"m", "o", "d">> -> ModAlias(onMac)
      [] OTHER -> part

\* The loop of parseShortcut over parts[1..n].
RECURSIVE ParsedParts(_, _, _)
ParsedParts(parts, n, onMac) ==
    IF n = 0 THEN [key |-> <<>>, modifiers |-> {}]
    ELSE IF Normalized(parts[n], onMac) \in ModifierNames
    THEN [ParsedParts(parts, n - 1, onMac)
            EXCEPT !.modifiers = @ \cup {Normalized(parts[n], onMac)}]
    ELSE [ParsedParts(parts, n - 1, onMac) EXCEPT !.key = Normalized(parts[n], onMac)]

PartsOf(shortcut) == SplitOnPlus(toLowerCase(shortcut))

parseShortcut(shortcut, onMac) == ParsedParts(PartsOf(shortcut), Len(PartsOf(shortcut)), onMac)

\* const keyMatches = ...
KeyMatches(eventKey, eventCode, key) ==
    \/ eventKey = key
    \/ eventCode = key
    \/ eventCode = <<"k", "e", "y">> \o key
    \/ (key = <<"b", "a", "c", "k", "s", "p", "a", "c", "e">>
          /\ (eventKey = <<"b", "a", "c", "k", "s", "p", "a", "c", "e">>
                \/ eventCode = <<"b", "a", "c", "k", "s", "p", "a", "c", "e">>))

\* A comparison that asks only for the wanted modifiers to be held.
ModifiersMatchWantedHeld(event, modifiers) ==
    /\ (<<"c", "o", "n", "t", "r", "o", "l">> \in modifiers) => event.ctrlKey
    /\ (<<"m", "e", "t", "a">> \in modifiers) => event.metaKey
    /\ (<<"a", "l", "t">> \in modifiers) => event.altKey
    /\ (<<"s", "h", "i", "f", "t">> \in modifiers) => event.shiftKey

\* The comparison of the held modifiers with the wanted ones.
ModifiersMatch(event, modifiers) ==
    /\ event.ctrlKey = (<<"c", "o", "n", "t", "r", "o", "l">> \in modifiers)
    /\ event.metaKey = (<<"m", "e", "t", "a">> \in modifiers)
    /\ event.altKey = (<<"a", "l", "t">> \in modifiers)
    /\ event.shiftKey = (<<"s", "h", "i", "f", "t">> \in modifiers)

MatchesParsed(event, parsed) ==
    IF ~KeyMatches(toLowerCase(event.key), toLowerCase(event.code), parsed.key)
    THEN FALSE
    ELSE ModifiersMatch(event, parsed.modifiers)

matchesShortcut(event, shortcut, onMac) ==
    MatchesParsed(event, parseShortcut(shortcut, onMac))

\* A KeyboardShortcuts as its constructor leaves it: no bindings, the
\* listener added to the element.
NewKeyboardShortcuts == [bindings |-> <<>>, attached |-> TRUE]

\* Array.isArray(shortcut) ? shortcut : [shortcut]
ShortcutsOf(shortcut) == IF shortcut.array THEN shortcut.many ELSE <<shortcut.one>>

\* The loop of bind over shortcuts[1..n].
RECURSIVE Pushed(_, _, _, _)
Pushed(bindings, shortcuts, n, handler) ==
    IF n = 0 THEN bindings
    ELSE Append(Pushed(bindings, shortcuts, n - 1, handler),
                [shortcut |-> shortcuts[n], handler |-> handler])

bind(this, shortcut, handler) ==
    [this EXCEPT !.bindings =
        Pushed(@, ShortcutsOf(shortcut), Len(ShortcutsOf(shortcut)), handler)]

\* A reset that empties the bindings and leaves the listener on the element.
resetBindingsOnly(this) == [this EXCEPT !.bindings = <<>>]

reset(this) == [this EXCEPT !.bindings = <<>>, !.attached = FALSE]

\* A loop that goes on after a match, to every matching binding.
RECURSIVE listenerWithoutReturn(_, _, _, _)
listenerWithoutReturn(bindings, i, event, onMac) ==
    IF i > Len(bindings) THEN <<>>
    ELSE IF matchesShortcut(event, bindings[i].shortcut, onMac)
    THEN <<bindings[i].handler>> \o listenerWithoutReturn(bindings, i + 1, event, onMac)
    ELSE listenerWithoutReturn(bindings, i + 1, event, onMac)

\* The listener's loop from bindings[i] on: the handlers it invokes.
RECURSIVE listener(_, _, _, _)
listener(bindings, i, event, onMac) ==
    IF i > Len(bindings) THEN <<>>
    ELSE IF matchesShortcut(event, bindings[i].shortcut, onMac)
    THEN <<bindings[i].handler>>
    ELSE listener(bindings, i + 1, event, onMac)

\* element.dispatchEvent(keydown): the listener runs if it is still added.
DispatchKeydown(this, event, onMac) ==
    IF this.attached THEN listener(this.bindings, 1, event, onMac) ELSE <<>>

(***************************************************************************)
(* The command registry (bootstrap).  A command is its name, its handler   *)
(* and its enable flag; a field the entry does not give is "undefined".    *)
(***************************************************************************)

\* Array.prototype.find: the first element of the name.
findFirst(array, name) ==
    IF \E i \in DOMAIN array : array[i].name = name
    THEN array[CHOOSE i \in DOMAIN array :
                 /\ array[i].name = name
                 /\ \A j \in DOMAIN array : array[j].name = name => i <= j]
    ELSE Undefined

\* A search that starts below the last element.
findLastBelowTop(array, name) ==
    IF \E i \in 1..(Len(array) - 1) : array[i].name = name
    THEN array[CHOOSE i \in 1..(Len(array) - 1) :
                 /\ array[i].name = name
                 /\ \A j \in 1..(Len(array) - 1) : array[j].name = name => j <= i]
    ELSE Undefined

\* A search that falls back on the first element when it finds nothing.
findLastOrFirst(array, name) ==
    IF \E i \in DOMAIN array : array[i].name = name
    THEN array[CHOOSE i \in DOMAIN array :
                 /\ array[i].name = name
                 /\ \A j \in DOMAIN array : array[j].name = name => j <= i]
    ELSE IF array = <<>> THEN Undefined ELSE array[1]

\* The loop of findLast from array[curIndex] down, with the predicate
\* (command) => command.name === name.
RECURSIVE FindLastFrom(_, _, _)
FindLastFrom(array, curIndex, name) ==
    IF curIndex = 0 THEN Undefined
    ELSE IF array[curIndex].name = name THEN array[curIndex]
    ELSE FindLastFrom(array, curIndex - 1, name)

findLast(array, name) == FindLastFrom(array, Len(array), name)

\* The built-in commands; bold stands for them all.
buildInCommands ==
    <<[name |-> "bold", handler |-> "boldCommandHandler", enable |-> "undefined"]>>

BuiltInNames == {buildInCommands[i].name : i \in DOMAIN buildInCommands}

\* wrapToggle with the markup '**' and the placeholder 'bold'.
boldCommandHandler(el, native) ==
    wrap(el, <<<<"*", "*">>>>,
         [given |-> {"placeholder"}, unwrap |-> TRUE, placeholder |-> <<"b", "o", "l", "d">>],
         native)

\* The headline command of a requested level, on the caret's line.
createHeadlineCommandHandler(el, level, native) ==
    replaceLine(el, Position(el).line.lineNumber,
                Returned(HeadlineLine(Position(el).line.text, level)), native)

\* The ordered-list command, on the lines of the selection or the caret's
\* line; a selection stays on the lines it covered.
orderedListCommandHandler(el, native) ==
    replaceCurrentLines(el, "orderedList",
                        [given |-> {"selectReplaced"},
                         selectReplaced |-> Selection(el) # Null],
                        native)

\* The block-quotes command, on the caret's line.
blockQuotesCommandHandler(el, native) ==
    replaceLine(el, Position(el).line.lineNumber,
                Returned(BlockQuotesLine(Position(el).line.text)), native)

\* What a handler does to the surface.  The custom handlers are those of
\* the tests: they record that they were called and leave the surface.
RunHandler(el, handler, native) ==
    IF handler = "boldCommandHandler" THEN boldCommandHandler(el, native) ELSE el

NoRegistry == [state |-> "none", commands |-> <<>>]

\* A setup that takes any configuration.
bootstrapWithoutValidation(commands) ==
    [state |-> "ready", commands |-> buildInCommands \o commands]

\* Setup: a custom command without a handler is refused, with a TypeError;
\* else the configured commands come after the built-in ones.
bootstrapTextareaMarkdown(commands) ==
    IF \E i \in DOMAIN commands :
          commands[i].name \notin BuiltInNames /\ commands[i].handler = "undefined"
    THEN [state |-> "failed", commands |-> <<>>]
    ELSE [state |-> "ready", commands |-> buildInCommands \o commands]

Outcome(el, threw, focused, invoked) ==
    [el |-> el, threw |-> threw, focused |-> focused, invoked |-> invoked]

\* trigger with the command found: skipped if it is disabled, else the
\* textarea is focused and the handler invoked; invoking what is no function
\* is a TypeError.
TriggerFound(el, command, native) ==
    IF command.enable = "false" THEN Outcome(el, "none", FALSE, <<>>)
    ELSE IF command.handler = "undefined" THEN Outcome(el, "TypeError", TRUE, <<>>)
    ELSE Outcome(RunHandler(el, command.handler, native), "none", TRUE, <<command.handler>>)

trigger(el, commands, name, native) ==
    IF findLast(commands, name) = Undefined THEN Outcome(el, "TypeError", FALSE, <<>>)
    ELSE TriggerFound(el, findLast(commands, name), native)

(***************************************************************************)
(* The state: the text surface (value, selectionStart, selectionEnd), the  *)
(* build's NODE_ENV, and a record of the last call made on the Cursor: the *)
(* call with its arguments and what it was seen to do, and the surface as  *)
(* it stood when the call was made.  origin keeps, for the last call of    *)
(* wrap, the call that came before it and the surface that one started     *)
(* from, so that two calls of wrap in a row can be told.                   *)
(*                                                                         *)
(* For the keyboard: the KeyboardShortcuts instance, whether the platform  *)
(* is a Mac, the arguments drawn for a call of matchesShortcut, and what   *)
(* has been asked of the instance so far: every binding registered, in the *)
(* order of registration, and whether reset has been called.               *)
(*                                                                         *)
(* For the commands: the registry bootstrapTextareaMarkdown has set up, if *)
(* it has been called.                                                     *)
(***************************************************************************)
VARIABLES value, selectionStart, selectionEnd, nodeEnv, call, before, origin,
          keyboard, onMac, drawn, registered, resetCalled, registry

surfaceVars == <<value, selectionStart, selectionEnd, nodeEnv, before, origin>>

keyboardVars == <<keyboard, onMac, drawn, registered, resetCalled>>

vars == <<value, selectionStart, selectionEnd, nodeEnv, call, before, origin,
          keyboard, onMac, drawn, registered, resetCalled, registry>>

\* The surface at the start of a call, its counters at zero.
Element ==
    [value |-> value, selectionStart |-> selectionStart,
     selectionEnd |-> selectionEnd, writes |-> 0, inputs |-> 0, errors |-> 0]

Surface ==
    [value |-> value, selectionStart |-> selectionStart, selectionEnd |-> selectionEnd]

NodeEnvs == {"test", "production"}

\* The inputs of the calls.
WrapChars == {"a", "*"}

LineChars == {"a", NL}

\* '*', '**', ['*', 'a'], ['**', '*'], ['*', '']
Markups ==
    {<<<<"*">>>>, <<<<"*", "*">>>>, <<<<"*">>, <<"a">>>>, <<<<"*", "*">>, <<"*">>>>,
     <<<<"*">>, <<>>>>}

\* undefined, { unwrap: false }, { placeholder: 'a' }, { unwrap: false, placeholder: 'aa' }
WrapOptions ==
    {[given |-> {}, unwrap |-> TRUE, placeholder |-> <<>>],
     [given |-> {"unwrap"}, unwrap |-> FALSE, placeholder |-> <<>>],
     [given |-> {"placeholder"}, unwrap |-> TRUE, placeholder |-> <<"a">>],
     [given |-> {"unwrap", "placeholder"}, unwrap |-> FALSE, placeholder |-> <<"a", "a">>]}

\* Contents with no marker, one (at the start, in the middle, at the end),
\* two and three.
Contents ==
    {<<>>, <<"a">>, <<"a", "a">>,
     <<MARKER>>, <<MARKER, "a">>, <<"a", MARKER>>, <<"a", MARKER, "a">>,
     <<MARKER, MARKER>>, <<MARKER, "a", MARKER>>, <<"a", MARKER, "a", MARKER>>,
     <<MARKER, "a", "a", MARKER>>, <<MARKER, MARKER, MARKER>>, <<MARKER, "a", MARKER, MARKER>>}

\* undefined, { selectReplaced: true }
ReplaceOptions ==
    {[given |-> {}, selectReplaced |-> FALSE],
     [given |-> {"selectReplaced"}, selectReplaced |-> TRUE]}

\* The line numbers given to replaceLine: negative, zero, those of a
\* buffer's first lines, and with them numbers past the last line of the
\* shorter buffers.
LineNumbers == -1..4

\* null, '', 'a', MARKER + 'a' + MARKER
LineContents ==
    {ReturnedNull, Returned(<<>>), Returned(<<"a">>), Returned(<<MARKER, "a", MARKER>>)}

\* The surface takes the call's result; the call is recorded.
Commit(el, record, preceding) ==
    /\ Len(el.value) <= MaxLen
    /\ value' = el.value
    /\ selectionStart' = el.selectionStart
    /\ selectionEnd' = el.selectionEnd
    /\ before' = Surface
    /\ call' = record @@ [writes |-> el.writes, inputs |-> el.inputs,
                           errors |-> el.errors]
    /\ origin' = preceding
    /\ UNCHANGED <<nodeEnv, keyboardVars, registry>>

InitOver(chars, envs) ==
    /\ value \in Strings(chars, MaxLen)
    /\ selectionEnd \in 0..Len(value)
    /\ selectionStart \in 0..selectionEnd
    /\ nodeEnv \in envs
    /\ call = [op |-> "none"]
    /\ before = Surface
    /\ origin = [call |-> [op |-> "none"]]
    /\ keyboard = NewKeyboardShortcuts
    /\ onMac = FALSE
    /\ drawn = [op |-> "none"]
    /\ registered = <<>>
    /\ resetCalled = FALSE
    /\ registry = NoRegistry

\* The callback's invocations, in the order .map makes them.
Calls(selectedLines) ==
    [i \in 1..Len(selectedLines) |-> [line |-> selectedLines[i], index |-> i - 1]]

Wrap ==
    \E markup \in Markups, options \in WrapOptions, native \in BOOLEAN :
        \E el \in {wrap(Element, markup, options, native)} :
            Commit(el, [op |-> "wrap", markup |-> markup, options |-> options,
                        branch |-> WrapBranch(Element, markup, options)],
                   [call |-> call, before |-> before])

Insert ==
    \E content \in Contents, native \in BOOLEAN :
        \E el \in {insert(Element, content, nodeEnv, native)} :
            Commit(el, [op |-> "insert", content |-> content], origin)

ReplaceCurrentLines ==
    \E callback \in Callbacks, options \in ReplaceOptions, native \in BOOLEAN :
        \E el \in {replaceCurrentLines(Element, callback, options, native)} :
            Commit(el, [op |-> "replaceCurrentLines", callback |-> callback,
                        options |-> options,
                        called |-> Calls(SelectedLines(Element))],
                   origin)

ReplaceLine ==
    \E lineNumber \in LineNumbers, content \in LineContents, native \in BOOLEAN :
        \E el \in {replaceLine(Element, lineNumber, content, native)} :
            Commit(el, [op |-> "replaceLine", lineNumber |-> lineNumber,
                        content |-> content],
                   origin)

\* 'a', 'aa', '\n', '' and 'b'
SearchTexts == {<<"a">>, <<"a", "a">>, <<NL>>, <<>>, <<"b">>}

\* '' and 'b'
Replacements == {<<>>, <<"b">>}

\* The scroll offsets of the textarea, in pixels.
ScrollOffsets == {0, 40}

Replace ==
    \E searchText \in SearchTexts, replacement \in Replacements, native \in BOOLEAN,
       scrollTop \in ScrollOffsets, scrolled \in ScrollOffsets :
        \E el \in {replace(Element @@ [scrollTop |-> scrollTop], searchText, replacement,
                            native, scrolled)} :
            Commit(el, [op |-> "replace", searchText |-> searchText,
                        replacement |-> replacement, scrollTopBefore |-> scrollTop,
                        scrollTop |-> el.scrollTop],
                   origin)

\* wrap and replaceCurrentLines do not read NODE_ENV; insert does.
InitWrap == InitOver(WrapChars, {"production"})

InitInsert == InitOver(LineChars, NodeEnvs)

InitLines == InitOver(LineChars, {"production"})

SpecWrap == InitWrap /\ [][Wrap]_vars

SpecInsert == InitInsert /\ [][Insert]_vars

SpecLines == InitLines /\ [][ReplaceCurrentLines]_vars

SpecReplaceLine == InitLines /\ [][ReplaceLine]_vars

SpecReplace == InitLines /\ [][Replace]_vars

(***************************************************************************)
(* The operations of the Cursor one after another, in any order and in     *)
(* either environment.  A call is recorded by its name and what it was     *)
(* given; the arguments are few, and markers are among them wherever a     *)
(* string is passed.                                                       *)
(***************************************************************************)

\* 'a', [MARKER + 'a', 'a']
SequenceMarkups == {<<<<"a">>>>, <<<<MARKER, "a">>, <<"a">>>>}

\* undefined, { placeholder: MARKER + 'a' }
SequenceOptions ==
    {[given |-> {}, unwrap |-> TRUE, placeholder |-> <<>>],
     [given |-> {"placeholder"}, unwrap |-> TRUE, placeholder |-> <<MARKER, "a">>]}

\* Contents with no marker, one, two and three.
SequenceContents ==
    {<<NL>>, <<MARKER, "a">>, <<MARKER, "a", MARKER>>, <<MARKER, MARKER, "a", MARKER>>}

SequenceCallbacks == {"null", "caret"}

SequenceLineNumbers == 1..2

\* null, MARKER + 'a' + MARKER
SequenceLineContents == {ReturnedNull, Returned(<<MARKER, "a", MARKER>>)}

\* 'a' and '\n'
SequenceSearchTexts == {<<"a">>, <<NL>>}

\* ''
SequenceReplacements == {<<>>}

\* The surface takes the call's result; the call is recorded with the most
\* markers a string given to it held.
Step(el, op, markers) ==
    /\ Len(el.value) <= MaxLen
    /\ value' = el.value
    /\ selectionStart' = el.selectionStart
    /\ selectionEnd' = el.selectionEnd
    /\ before' = Surface
    /\ call' = [op |-> op, markers |-> markers]
    /\ UNCHANGED <<nodeEnv, origin, keyboardVars, registry>>

\* The number of markers in text.
MarkersIn(text) == Cardinality({i \in DOMAIN text : text[i] = MARKER})

WrapNext ==
    \E markup \in SequenceMarkups, options \in SequenceOptions, native \in BOOLEAN :
        Step(wrap(Element, markup, options, native), "wrap",
             Max(MarkersIn(PrefixOf(markup)), MarkersIn(options.placeholder)))

InsertNext ==
    \E content \in SequenceContents, native \in BOOLEAN :
        Step(insert(Element, content, nodeEnv, native), "insert", MarkersIn(content))

ReplaceCurrentLinesNext ==
    \E callback \in SequenceCallbacks, options \in {[given |-> {}, selectReplaced |-> FALSE]},
       native \in BOOLEAN :
        Step(replaceCurrentLines(Element, callback, options, native),
             "replaceCurrentLines", IF callback = "caret" THEN 1 ELSE 0)

ReplaceLineNext ==
    \E lineNumber \in SequenceLineNumbers, content \in SequenceLineContents,
       native \in BOOLEAN :
        Step(replaceLine(Element, lineNumber, content, native), "replaceLine",
             MarkersIn(content.text))

ReplaceNext ==
    \E searchText \in SequenceSearchTexts, replacement \in SequenceReplacements,
       native \in BOOLEAN :
        Step(replace(Element @@ [scrollTop |-> 0], searchText, replacement, native, 0),
             "replace", 0)

SpecCursor ==
    InitInsert
      /\ [][WrapNext \/ InsertNext \/ ReplaceCurrentLinesNext \/ ReplaceLineNext
              \/ ReplaceNext]_vars

(***************************************************************************)
(* The keyboard: the inputs and the calls.                                 *)
(***************************************************************************)

\* The most bindings registered with one KeyboardShortcuts.
MaxBindings == 2

\* event.key: 'a', 'A', 'b', 'Tab', 'Backspace'
EventKeys ==
    {<<"a">>,
     <<"A">>,
     <<"b">>,
     <<"T", "a", "b">>,
     <<"B", "a", "c", "k", "s", "p", "a", "c", "e">>}

\* event.code: 'KeyA', 'KeyB', 'Tab', 'Backspace', ''
EventCodes ==
    {<<"K", "e", "y", "A">>,
     <<"K", "e", "y", "B">>,
     <<"T", "a", "b">>,
     <<"B", "a", "c", "k", "s", "p", "a", "c", "e">>,
     <<>>}

\* The keydown events matchesShortcut is given.
KeyEvents ==
    [key : EventKeys, code : EventCodes,
     ctrlKey : BOOLEAN, metaKey : BOOLEAN, altKey : BOOLEAN, shiftKey : BOOLEAN]

\* The shortcuts matchesShortcut is given:
\* 'a', 'A', 'b', 'tab', 'ctrl+b', 'ctrl+shift+a', 'Ctrl+Shift+A', 'command+b',
\* 'cmd+a', 'mod+b', 'option+a', 'alt+a', 'shift+tab', 'command+backspace', 'meta+control+a'
MatchShortcuts ==
    {<<"a">>,
     <<"A">>,
     <<"b">>,
     <<"t", "a", "b">>,
     <<"c", "t", "r", "l", "+", "b">>,
     <<"c", "t", "r", "l", "+", "s", "h", "i", "f", "t", "+", "a">>,
     <<"C", "t", "r", "l", "+", "S", "h", "i", "f", "t", "+", "A">>,
     <<"c", "o", "m", "m", "a", "n", "d", "+", "b">>,
     <<"c", "m", "d", "+", "a">>,
     <<"m", "o", "d", "+", "b">>,
     <<"o", "p", "t", "i", "o", "n", "+", "a">>,
     <<"a", "l", "t", "+", "a">>,
     <<"s", "h", "i", "f", "t", "+", "t", "a", "b">>,
     <<"c", "o", "m", "m", "a", "n", "d", "+", "b", "a", "c", "k", "s", "p", "a", "c", "e">>,
     <<"m", "e", "t", "a", "+", "c", "o", "n", "t", "r", "o", "l", "+", "a">>}

\* The keydown events dispatched to the element: the keys a and b, with
\* and without ctrl and meta.
DispatchedEvents ==
    {[key |-> <<"a">>, code |-> <<"K", "e", "y", "A">>, ctrlKey |-> c, metaKey |-> m,
      altKey |-> FALSE, shiftKey |-> FALSE] : c \in BOOLEAN, m \in BOOLEAN}
    \cup {[key |-> <<"b">>, code |-> <<"K", "e", "y", "B">>, ctrlKey |-> c, metaKey |-> m,
           altKey |-> FALSE, shiftKey |-> FALSE] : c \in BOOLEAN, m \in BOOLEAN}

\* A shortcut argument of bind: one string, or an array of strings.
One(shortcut) == [array |-> FALSE, one |-> shortcut, many |-> <<>>]

Many(shortcuts) == [array |-> TRUE, one |-> <<>>, many |-> shortcuts]

\* 'a', 'ctrl+b', 'command+b', ['ctrl+b', 'command+b'], ['a', 'ctrl+b']
BoundShortcuts ==
    {One(<<"a">>), One(<<"c", "t", "r", "l", "+", "b">>), One(<<"c", "o", "m", "m", "a", "n", "d", "+", "b">>),
     Many(<<<<"c", "t", "r", "l", "+", "b">>, <<"c", "o", "m", "m", "a", "n", "d", "+", "b">>>>),
     Many(<<<<"a">>, <<"c", "t", "r", "l", "+", "b">>>>)}

Handlers == {"h1", "h2"}

InitKeyboard ==
    /\ value = <<>> /\ selectionStart = 0 /\ selectionEnd = 0
    /\ nodeEnv = "production"
    /\ call = [op |-> "none"]
    /\ before = Surface
    /\ origin = [call |-> [op |-> "none"]]
    /\ keyboard = NewKeyboardShortcuts
    /\ onMac \in BOOLEAN
    /\ drawn = [op |-> "none"]
    /\ registered = <<>>
    /\ resetCalled = FALSE
    /\ registry = NoRegistry

\* The arguments of a call of matchesShortcut are drawn with the state.
InitMatch ==
    /\ value = <<>> /\ selectionStart = 0 /\ selectionEnd = 0
    /\ nodeEnv = "production"
    /\ call = [op |-> "none"]
    /\ before = Surface
    /\ origin = [call |-> [op |-> "none"]]
    /\ keyboard = NewKeyboardShortcuts
    /\ onMac \in BOOLEAN
    /\ drawn \in [op : {"matchesShortcut"}, event : KeyEvents, shortcut : MatchShortcuts]
    /\ registered = <<>>
    /\ resetCalled = FALSE
    /\ registry = NoRegistry

\* The bindings a call of bind registers, in the order of the array.
Registered(shortcut, handler) ==
    IF shortcut.array
    THEN [i \in DOMAIN shortcut.many |-> [shortcut |-> shortcut.many[i], handler |-> handler]]
    ELSE <<[shortcut |-> shortcut.one, handler |-> handler]>>

Match ==
    /\ drawn.op = "matchesShortcut"
    /\ call.op = "none"
    /\ call' = [op |-> "matchesShortcut", event |-> drawn.event,
                shortcut |-> drawn.shortcut,
                result |-> matchesShortcut(drawn.event, drawn.shortcut, onMac)]
    /\ UNCHANGED <<surfaceVars, registry, keyboardVars>>

Bind ==
    \E shortcut \in BoundShortcuts, handler \in Handlers :
        /\ Len(registered) + Len(Registered(shortcut, handler)) <= MaxBindings
        /\ keyboard' = bind(keyboard, shortcut, handler)
        /\ registered' = registered \o Registered(shortcut, handler)
        /\ call' = [op |-> "bind", shortcut |-> shortcut, handler |-> handler]
        /\ UNCHANGED <<surfaceVars, registry, onMac, drawn, resetCalled>>

Reset ==
    /\ keyboard' = reset(keyboard)
    /\ resetCalled' = TRUE
    /\ call' = [op |-> "reset"]
    /\ UNCHANGED <<surfaceVars, registry, onMac, drawn, registered>>

Keydown ==
    \E event \in DispatchedEvents :
        /\ call' = [op |-> "keydown", event |-> event,
                    invoked |-> DispatchKeydown(keyboard, event, onMac)]
        /\ UNCHANGED <<surfaceVars, registry, keyboardVars>>

SpecMatch == InitMatch /\ [][Match]_vars

SpecKeyboard == InitKeyboard /\ [][Bind \/ Reset \/ Keydown]_vars

(***************************************************************************)
(* The command registry: the inputs and the calls.                         *)
(***************************************************************************)

\* The most commands in a configuration.
MaxCommands == 2

\* { name: 'bold' | 'custom', handler?: h1 | h2, enable?: false }
CommandConfigs ==
    [name : {"bold", "custom"}, handler : {"undefined", "h1", "h2"},
     enable : {"undefined", "false"}]

Configs == UNION {[1..n -> CommandConfigs] : n \in 0..MaxCommands}

\* The names given to trigger: a built-in one, a custom one, and one that
\* no configuration defines.
TriggerNames == {"bold", "custom", "nonexistent-command"}

\* The textarea of the tests: '' and 'a', with every selection.
InitRegistry ==
    /\ value \in Strings({"a"}, 1)
    /\ selectionEnd \in 0..Len(value)
    /\ selectionStart \in 0..selectionEnd
    /\ nodeEnv = "production"
    /\ call = [op |-> "none"]
    /\ before = Surface
    /\ origin = [call |-> [op |-> "none"]]
    /\ keyboard = NewKeyboardShortcuts
    /\ onMac = FALSE
    /\ drawn = [op |-> "none"]
    /\ registered = <<>>
    /\ resetCalled = FALSE
    /\ registry = NoRegistry

Bootstrap ==
    /\ registry.state = "none"
    /\ \E commands \in Configs :
          /\ registry' = bootstrapTextareaMarkdown(commands)
          /\ call' = [op |-> "bootstrap", commands |-> commands,
                      threw |-> IF bootstrapTextareaMarkdown(commands).state = "failed"
                                THEN "TypeError" ELSE "none"]
          /\ origin' = [call |-> call, registry |-> registry]
    /\ UNCHANGED <<value, selectionStart, selectionEnd, nodeEnv, before, keyboardVars>>

\* trigger is the function a setup that did not throw has returned.
Trigger ==
    /\ registry.state = "ready"
    /\ \E name \in TriggerNames, native \in BOOLEAN :
          \E outcome \in {trigger(Element, registry.commands, name, native)} :
              /\ value' = outcome.el.value
              /\ selectionStart' = outcome.el.selectionStart
              /\ selectionEnd' = outcome.el.selectionEnd
              /\ call' = [op |-> "trigger", name |-> name, threw |-> outcome.threw,
                          focused |-> outcome.focused, invoked |-> outcome.invoked]
              /\ before' = Surface
              /\ origin' = [call |-> call, registry |-> registry]
    /\ UNCHANGED <<nodeEnv, keyboardVars, registry>>

SpecRegistry == InitRegistry /\ [][Bootstrap \/ Trigger]_vars

(***************************************************************************)
(* getIncrementedOrderedListPrefix: the inputs and the call.               *)
(***************************************************************************)

\* The most segments of a prefix.
MaxSegments == 3

\* The numeric segments: 0, 1, 9, 09, 19, 99, 2^53 - 1, 2^53, 2^53 + 1
Segments ==
    {<<"0">>,
     <<"1">>,
     <<"9">>,
     <<"0", "9">>,
     <<"1", "9">>,
     <<"9", "9">>,
     <<"9", "0", "0", "7", "1", "9", "9", "2", "5", "4", "7", "4", "0", "9", "9", "1">>,
     <<"9", "0", "0", "7", "1", "9", "9", "2", "5", "4", "7", "4", "0", "9", "9", "2">>,
     <<"9", "0", "0", "7", "1", "9", "9", "2", "5", "4", "7", "4", "0", "9", "9", "3">>}

\* '', ' ', '  '
Paddings == {<<>>, <<" ">>, <<" ", " ">>}

\* The prefix of the segments, each with its dot, within the padding.
RECURSIVE Dotted(_)
Dotted(segments) ==
    IF segments = <<>> THEN <<>> ELSE segments[1] \o <<".">> \o Dotted(Tail(segments))

PrefixOfSegments(lead, segments, trail) == lead \o Dotted(segments) \o trail

\* The argument of a call of getIncrementedOrderedListPrefix is drawn with
\* the state.
InitPrefix ==
    /\ value = <<>> /\ selectionStart = 0 /\ selectionEnd = 0
    /\ nodeEnv = "production"
    /\ call = [op |-> "none"]
    /\ before = Surface
    /\ origin = [call |-> [op |-> "none"]]
    /\ keyboard = NewKeyboardShortcuts
    /\ onMac = FALSE
    /\ drawn \in [op : {"getIncrementedOrderedListPrefix"},
                  segments : UNION {[1..k -> Segments] : k \in 1..MaxSegments},
                  lead : Paddings, trail : Paddings]
    /\ registered = <<>>
    /\ resetCalled = FALSE
    /\ registry = NoRegistry

Increment ==
    /\ drawn.op = "getIncrementedOrderedListPrefix"
    /\ call.op = "none"
    /\ \E prefix \in {PrefixOfSegments(drawn.lead, drawn.segments, drawn.trail)} :
          call' = [op |-> "getIncrementedOrderedListPrefix", prefix |-> prefix,
                   result |-> getIncrementedOrderedListPrefix(prefix)]
    /\ UNCHANGED <<surfaceVars, registry, keyboardVars>>

SpecPrefix == InitPrefix /\ [][Increment]_vars

(***************************************************************************)
(* The commands of the lines: headline, ordered list, block quotes.  The   *)
(* buffers are made of whole lines, with and without the prefixes the      *)
(* commands look for.                                                      *)
(***************************************************************************)

MaxApplications == 3

\* The buffers of one line and of two lines out of a set of lines.
BuffersOf(lineTexts) ==
    lineTexts \cup {first \o <<NL>> \o second : first, second \in lineTexts}

\* '', 'a', '# a', '## a', '###### a'
HeadlineLines ==
    {<<>>, <<"a">>, <<"#", " ", "a">>, <<"#", "#", " ", "a">>,
     <<"#", "#", "#", "#", "#", "#", " ", "a">>}

\* The requested levels: 1, 3, 6 and 10 of the tests, 2, and levels below 1.
HeadlineLevels == {-1, 0, 1, 2, 3, 6, 7, 10}

\* 'a', '1. a', '9. a'
OrderedListLines == {<<"a">>, <<"1", ".", " ", "a">>, <<"9", ".", " ", "a">>}

\* Ten lines 'a', for a numbering of two digits.
TenLines == <<"a", NL, "a", NL, "a", NL, "a", NL, "a", NL, "a", NL, "a", NL, "a", NL,
              "a", NL, "a">>

\* 'a', 'a\na', 'a\na\na' and so on with the numbered lines, and the ten lines.
OrderedListBuffers ==
    BuffersOf(OrderedListLines)
      \cup {first \o <<NL>> \o second \o <<NL>> \o third :
              first, second, third \in OrderedListLines}
      \cup {TenLines}

\* '', 'a', '> a', '>a', '> '
BlockQuotesLines == {<<>>, <<"a">>, <<">", " ", "a">>, <<">", "a">>, <<">", " ">>}

\* A caret in one of the buffers.
InitCaret(buffers) ==
    /\ value \in buffers
    /\ selectionEnd \in 0..Len(value)
    /\ selectionStart = selectionEnd
    /\ nodeEnv = "production"
    /\ call = [op |-> "none"]
    /\ before = Surface
    /\ origin = [call |-> [op |-> "none"]]
    /\ keyboard = NewKeyboardShortcuts
    /\ onMac = FALSE
    /\ drawn = [op |-> "none"]
    /\ registered = <<>>
    /\ resetCalled = FALSE
    /\ registry = NoRegistry

\* A caret or a selection in one of the buffers.
InitSelection(buffers) ==
    /\ value \in buffers
    /\ selectionEnd \in 0..Len(value)
    /\ selectionStart \in 0..selectionEnd
    /\ nodeEnv = "production"
    /\ call = [op |-> "none"]
    /\ before = Surface
    /\ origin = [call |-> [op |-> "none"]]
    /\ keyboard = NewKeyboardShortcuts
    /\ onMac = FALSE
    /\ drawn = [op |-> "none"]
    /\ registered = <<>>
    /\ resetCalled = FALSE
    /\ registry = NoRegistry

\* The surface takes the command's result; the command is recorded.
Handled(el, record) ==
    /\ value' = el.value
    /\ selectionStart' = el.selectionStart
    /\ selectionEnd' = el.selectionEnd
    /\ before' = Surface
    /\ call' = record @@ [writes |-> el.writes, inputs |-> el.inputs,
                           errors |-> el.errors]
    /\ UNCHANGED <<nodeEnv, origin, keyboardVars, registry>>

Headline ==
    \E level \in HeadlineLevels, native \in BOOLEAN :
        Handled(createHeadlineCommandHandler(Element, level, native),
                [op |-> "headline", level |-> level])

\* The applications of the ordered-list command so far.
Applications == IF call.op = "none" THEN 0 ELSE call.applications

\* The applications of the ordered-list command follow one another; each
\* keeps the surface the first started from and the buffer the first left.
OrderedList ==
    \E native \in BOOLEAN :
        \E el \in {orderedListCommandHandler(Element, native)} :
            /\ Applications < MaxApplications
            /\ Handled(el,
                       [op |-> "orderedList",
                        applications |-> Applications + 1,
                        start |-> IF call.op = "none" THEN Surface ELSE call.start,
                        first |-> IF call.op = "none" THEN el.value ELSE call.first])

BlockQuotes ==
    \E native \in BOOLEAN :
        Handled(blockQuotesCommandHandler(Element, native), [op |-> "blockQuotes"])

SpecHeadline == InitCaret(BuffersOf(HeadlineLines)) /\ [][Headline]_vars

SpecOrderedList == InitSelection(OrderedListBuffers) /\ [][OrderedList]_vars

SpecBlockQuotes == InitCaret(BuffersOf(BlockQuotesLines)) /\ [][BlockQuotes]_vars

(***************************************************************************)
(* What the properties below read off the state.  The range [s, e) a call  *)
(* acted on is the selection the surface had when the call was made: with  *)
(* nothing selected both ends are the caret.                               *)
(***************************************************************************)

\* The characters of text at the offsets from .. to-1.
Part(text, from, to) == [i \in 1..(to - from) |-> text[from + i]]

\* The characters of text from offset from on.
Rest(text, from) == Part(text, from, Len(text))

\* The surface is text with the selection [from, to).
SurfaceIs(text, from, to) ==
    value = text /\ selectionStart = from /\ selectionEnd = to

(***************************************************************************)
(* wrap                                                                    *)
(***************************************************************************)

\* The prefix and suffix of the markup given to the last call of wrap.
GivenPrefix == call.markup[1]

GivenSuffix == call.markup[Len(call.markup)]

\* The text the wrap branch puts between the markup.
GivenInner ==
    IF before.selectionStart < before.selectionEnd
    THEN Part(before.value, before.selectionStart, before.selectionEnd)
    ELSE IF "placeholder" \in call.options.given THEN call.options.placeholder
    ELSE <<>>

\* C2: when wrap takes the wrap branch on [s, e) the buffer becomes
\* old[0..s) + prefix + inner + suffix + old[e..), inner being the selected
\* text or, for an empty range, the placeholder, and the selection becomes
\* [s + len(prefix), s + len(prefix) + len(inner)).
WrapBranchResult ==
    (call.op = "wrap" /\ call.branch = "wrap") =>
        SurfaceIs(Part(before.value, 0, before.selectionStart) \o GivenPrefix
                      \o GivenInner \o GivenSuffix
                      \o Rest(before.value, before.selectionEnd),
                  before.selectionStart + Len(GivenPrefix),
                  before.selectionStart + Len(GivenPrefix) + Len(GivenInner))

\* A selection was wrapped in a markup of two different parts, inside a
\* longer buffer.
WrapBranchTaken ==
    /\ call.op = "wrap" /\ call.branch = "wrap"
    /\ before.selectionStart > 0
    /\ before.selectionStart < before.selectionEnd
    /\ before.selectionEnd < Len(before.value)
    /\ Len(call.markup) = 2
    /\ selectionEnd > selectionStart

\* C3: when wrap takes the unwrap branch on [s, e) the buffer becomes
\* old[0..s-len(prefix)) + old[s..e) + old[e+len(suffix)..) and the
\* selection becomes [s - len(prefix), e - len(prefix)).
UnwrapBranchResult ==
    (call.op = "wrap" /\ call.branch = "unwrap") =>
        SurfaceIs(Part(before.value, 0, before.selectionStart - Len(GivenPrefix))
                      \o Part(before.value, before.selectionStart, before.selectionEnd)
                      \o Rest(before.value, before.selectionEnd + Len(GivenSuffix)),
                  before.selectionStart - Len(GivenPrefix),
                  before.selectionEnd - Len(GivenPrefix))

\* A selection was unwrapped out of a two-character prefix and a
\* one-character suffix.
UnwrapBranchTaken ==
    /\ call.op = "wrap" /\ call.branch = "unwrap"
    /\ before.selectionStart < before.selectionEnd
    /\ Len(GivenPrefix) = 2 /\ Len(GivenSuffix) = 1
    /\ Len(value) = Len(before.value) - 3

\* The condition under which wrap is to unwrap, on the surface as the call
\* found it.
ShouldUnwrap ==
    /\ ("unwrap" \in call.options.given => call.options.unwrap)
    /\ before.selectionStart - Len(GivenPrefix) >= 0
    /\ before.selectionEnd + Len(GivenSuffix) <= Len(before.value)
    /\ Part(before.value, before.selectionStart - Len(GivenPrefix),
            before.selectionStart) = GivenPrefix
    /\ Part(before.value, before.selectionEnd,
            before.selectionEnd + Len(GivenSuffix)) = GivenSuffix

\* C4: wrap unwraps if and only if the unwrap option is true (the default),
\* the prefix fits before s, the suffix fits from e on, and the characters
\* there are the prefix and the suffix; in every other case it wraps.  The
\* buffer shrinks by the markup exactly when that condition holds.
UnwrapsExactlyWhenWrapped ==
    call.op = "wrap" =>
        /\ (call.branch = "unwrap") = ShouldUnwrap
        /\ (call.branch = "wrap") = ~ShouldUnwrap
        /\ (Len(value) = Len(before.value) - Len(GivenPrefix) - Len(GivenSuffix))
               = ShouldUnwrap

\* wrap with unwrap: false on text already wrapped nested the markup.
NestedMarkup ==
    /\ call.op = "wrap" /\ call.branch = "wrap"
    /\ "unwrap" \in call.options.given /\ ~call.options.unwrap
    /\ before.selectionStart - Len(GivenPrefix) >= 0
    /\ before.selectionEnd + Len(GivenSuffix) <= Len(before.value)
    /\ Part(before.value, before.selectionStart - Len(GivenPrefix),
            before.selectionStart) = GivenPrefix
    /\ Part(before.value, before.selectionEnd,
            before.selectionEnd + Len(GivenSuffix)) = GivenSuffix
    /\ Len(value) > Len(before.value)

\* The last two calls were wrap with the same markup and no options, the
\* first of them on a non-empty selection.
WrappedTwice ==
    /\ call.op = "wrap" /\ origin.call.op = "wrap"
    /\ call.markup = origin.call.markup
    /\ call.options.given = {} /\ origin.call.options.given = {}
    /\ origin.before.selectionStart < origin.before.selectionEnd

\* The surface is as it was before the first of the last two calls.
Restored ==
    SurfaceIs(origin.before.value, origin.before.selectionStart,
              origin.before.selectionEnd)

\* C1 as stated: wrap called twice in a row with the default options
\* restores the buffer and the selection, whatever the buffer.
WrapTwiceRestoresAlways == WrappedTwice => Restored

\* C1: wrap called twice in a row with the default options on a non-empty
\* selection restores the buffer and the selection, unless both calls
\* unwrapped (the selection stood inside two layers of the markup).
WrapTwiceRestores ==
    (WrappedTwice /\ ~(origin.call.branch = "unwrap" /\ call.branch = "unwrap"))
        => Restored

\* A selection was wrapped and then unwrapped again.
WrappedThenUnwrapped ==
    /\ WrappedTwice
    /\ origin.call.branch = "wrap" /\ call.branch = "unwrap"
    /\ before.value # value
    /\ Restored

\* A selection was unwrapped and then wrapped again.
UnwrappedThenWrapped ==
    /\ WrappedTwice
    /\ origin.call.branch = "unwrap" /\ call.branch = "wrap"
    /\ Restored

(***************************************************************************)
(* insert                                                                  *)
(***************************************************************************)

\* The offsets of the markers in the content given to the last insert.
MarkerOffsets == {i \in 0..(Len(call.content) - 1) : call.content[i + 1] = MARKER}

FirstMarker == CHOOSE i \in MarkerOffsets : \A j \in MarkerOffsets : i <= j

SecondMarker == CHOOSE i \in MarkerOffsets : \A j \in MarkerOffsets : i >= j

\* The content given to the last insert, its markers taken out.
RECURSIVE Unmarked(_)
Unmarked(content) ==
    IF content = <<>> THEN <<>>
    ELSE IF Head(content) = MARKER THEN Unmarked(Tail(content))
    ELSE <<Head(content)>> \o Unmarked(Tail(content))

\* The buffer with the range the last call found selected replaced by text.
Spliced(text) ==
    Part(before.value, 0, before.selectionStart) \o text
        \o Rest(before.value, before.selectionEnd)

\* C5: insert of a content with exactly two markers on the range [s, e)
\* makes the buffer old[0..s) + content without its markers + old[e..) and
\* selects the text that stood between the markers:
\* [s + index of the first marker, s + index of the second marker - 1).
InsertTwoMarkersSelects ==
    (call.op = "insert" /\ Cardinality(MarkerOffsets) = 2) =>
        SurfaceIs(Spliced(Unmarked(call.content)),
                  before.selectionStart + FirstMarker,
                  before.selectionStart + SecondMarker - 1)

\* A selection was replaced by a content with text before and between its
\* two markers.
InsertedTwoMarkersOverSelection ==
    /\ call.op = "insert" /\ Cardinality(MarkerOffsets) = 2
    /\ before.selectionStart < before.selectionEnd
    /\ FirstMarker > 0 /\ SecondMarker > FirstMarker + 1
    /\ selectionStart < selectionEnd

\* Such a content was inserted at the caret, nothing being selected.
InsertedTwoMarkersAtCaret ==
    /\ call.op = "insert" /\ Cardinality(MarkerOffsets) = 2
    /\ before.selectionStart = before.selectionEnd
    /\ before.selectionStart > 0
    /\ SecondMarker > FirstMarker + 1
    /\ selectionStart < selectionEnd

\* C6: insert of a content with exactly one marker, at index m, leaves a
\* collapsed caret at s + m, s being the start of the replaced range,
\* whether or not a selection was replaced.
InsertOneMarkerPlacesCaret ==
    (call.op = "insert" /\ Cardinality(MarkerOffsets) = 1) =>
        /\ selectionStart = before.selectionStart + FirstMarker
        /\ selectionEnd = selectionStart

\* What holds of C6: the caret is placed when nothing was selected.
InsertOneMarkerAtCaretPlacesCaret ==
    (/\ call.op = "insert" /\ Cardinality(MarkerOffsets) = 1
     /\ before.selectionStart = before.selectionEnd) =>
        SurfaceIs(Spliced(Unmarked(call.content)),
                  before.selectionStart + FirstMarker,
                  before.selectionStart + FirstMarker)

\* A content with its one marker before its text replaced a selection.
InsertedOneMarkerOverSelection ==
    /\ call.op = "insert" /\ Cardinality(MarkerOffsets) = 1
    /\ before.selectionStart < before.selectionEnd
    /\ FirstMarker < Len(call.content) - 1

(***************************************************************************)
(* lines, position, selection: what the getters return on the surface as   *)
(* it stands.                                                              *)
(***************************************************************************)

\* The lines of the buffer.
TheLines == Lines(value)

\* The offset o is within the closed span of the line.
Within(line, o) == line.startsAt <= o /\ o <= line.endsAt

\* The sum of the lengths of the texts of lines[1..n].
RECURSIVE TextLengths(_, _)
TextLengths(lines, n) ==
    IF n = 0 THEN 0 ELSE TextLengths(lines, n - 1) + Len(lines[n].text)

\* The texts of lines[from..], each but the last followed by a newline.
RECURSIVE TextsWithNewlines(_, _)
TextsWithNewlines(lines, from) ==
    IF from > Len(lines) THEN <<>>
    ELSE IF from = Len(lines) THEN lines[from].text
    ELSE lines[from].text \o <<NL>> \o TextsWithNewlines(lines, from + 1)

\* C7: the lines of a buffer T are numbered 1..n in order; the first
\* starts at 0; each ends at startsAt + len(text); each but the last ends
\* one before the next starts; the last ends at len(T); the text lengths
\* plus n - 1 add up to len(T); the texts joined by newlines are T; and
\* the closed spans are pairwise disjoint and cover [0, len(T)].
LinesPartitionBuffer ==
    /\ Len(TheLines) >= 1
    /\ \A i \in DOMAIN TheLines :
          /\ TheLines[i].lineNumber = i
          /\ TheLines[i].endsAt = TheLines[i].startsAt + Len(TheLines[i].text)
    /\ TheLines[1].startsAt = 0
    /\ \A i \in 1..(Len(TheLines) - 1) :
          TheLines[i].endsAt + 1 = TheLines[i + 1].startsAt
    /\ TheLines[Len(TheLines)].endsAt = Len(value)
    /\ TextLengths(TheLines, Len(TheLines)) + (Len(TheLines) - 1) = Len(value)
    /\ TextsWithNewlines(TheLines, 1) = value
    /\ \A i, j \in DOMAIN TheLines :
          i # j => \A o \in 0..Len(value) : ~(Within(TheLines[i], o) /\ Within(TheLines[j], o))
    /\ \A o \in 0..Len(value) : \E i \in DOMAIN TheLines : Within(TheLines[i], o)

\* A buffer of three lines, the middle one empty, left by a call.
ThreeLinesOneEmpty ==
    /\ call.op = "replaceCurrentLines"
    /\ Len(TheLines) = 3
    /\ TheLines[1].text # <<>> /\ TheLines[2].text = <<>> /\ TheLines[3].text # <<>>
    /\ TheLines[3].startsAt = Len(TheLines[1].text) + 2

\* The position the getter returns for the caret as it stands.
ThePosition == Position(Element)

\* C8: for a caret at offset o, 0 <= o <= len(T), position returns
\* cursorAt = o and a defined line L with L.startsAt <= o <= L.endsAt, the
\* only line of the buffer with that property: an offset on a newline
\* belongs to the line before it and the offset after a newline to the
\* next line.
PositionInOneLine ==
    /\ ThePosition.cursorAt = selectionStart
    /\ ThePosition.line # Undefined
    /\ ThePosition.line \in {TheLines[i] : i \in DOMAIN TheLines}
    /\ Within(ThePosition.line, selectionStart)
    /\ \A i \in DOMAIN TheLines :
          Within(TheLines[i], selectionStart) => TheLines[i] = ThePosition.line
    /\ (selectionStart < Len(value) /\ value[selectionStart + 1] = NL)
          => ThePosition.line.endsAt = selectionStart
    /\ (selectionStart > 0 /\ value[selectionStart] = NL)
          => ThePosition.line.startsAt = selectionStart

\* The caret stands right after a newline, on a line that is not the
\* first, in a buffer left by a call.
CaretAfterNewline ==
    /\ call.op = "replaceCurrentLines"
    /\ selectionStart > 0 /\ value[selectionStart] = NL
    /\ ThePosition.line.lineNumber > 1
    /\ ThePosition.line.startsAt = selectionStart

\* The selection the getter returns for the surface as it stands.
TheSelection == Selection(Element)

\* The closed span of the line meets the closed interval [from, to].
Meets(line, from, to) == line.startsAt <= to /\ from <= line.endsAt

\* C9: selection is null exactly when selectionStart = selectionEnd.
\* Otherwise its text is buffer[selectionStart..selectionEnd) and its lines
\* are exactly the lines whose closed span meets the closed interval
\* [selectionStart, selectionEnd]: never none, and the run of lines from
\* the one containing selectionStart to the one containing selectionEnd,
\* in line order.
SelectionCoversMeetingLines ==
    /\ (TheSelection = Null) = (selectionStart = selectionEnd)
    /\ selectionStart # selectionEnd =>
          /\ TheSelection.text = Part(value, selectionStart, selectionEnd)
          /\ TheSelection.selectionStart = selectionStart
          /\ TheSelection.selectionEnd = selectionEnd
          /\ TheSelection.lines # <<>>
          /\ \E a, b \in DOMAIN TheLines :
                /\ a <= b
                /\ Within(TheLines[a], selectionStart)
                /\ Within(TheLines[b], selectionEnd)
                /\ TheSelection.lines = [k \in 1..(b - a + 1) |-> TheLines[a + k - 1]]
                /\ \A i \in DOMAIN TheLines :
                      (i \in a..b) = Meets(TheLines[i], selectionStart, selectionEnd)

\* A selection from inside one line to inside the line after the next, in
\* a buffer left by a call.
SelectionOverThreeLines ==
    /\ call.op = "replaceCurrentLines"
    /\ selectionStart # selectionEnd
    /\ Len(TheSelection.lines) = 3
    /\ Len(TheLines) > 3
    /\ TheSelection.lines[1].lineNumber = 2

(***************************************************************************)
(* replaceCurrentLines                                                     *)
(***************************************************************************)

\* The lines of the buffer the last call found.
LinesBefore == Lines(before.value)

\* The numbers of the lines the last call is to rewrite: those meeting the
\* selection it found, which for a caret is the line the caret is in.
RunBefore ==
    {i \in DOMAIN LinesBefore :
        Meets(LinesBefore[i], before.selectionStart, before.selectionEnd)}

FirstOfRun == CHOOSE i \in RunBefore : \A j \in RunBefore : i <= j

LastOfRun == CHOOSE i \in RunBefore : \A j \in RunBefore : i >= j

\* What the callback of the last call returns for the k-th line of the run,
\* given that line and its index k - 1 within the run.
ResultFor(k) ==
    CallCallback(call.callback, LinesBefore[FirstOfRun + k - 1], k - 1,
                 [j \in 1..(LastOfRun - FirstOfRun + 1) |-> LinesBefore[FirstOfRun + j - 1]])

\* The non-null results for the lines k.. of the run, joined by newlines.
RECURSIVE ResultsJoined(_, _)
ResultsJoined(k, first) ==
    IF k > LastOfRun - FirstOfRun + 1 THEN <<>>
    ELSE IF ResultFor(k).null THEN ResultsJoined(k + 1, first)
    ELSE (IF first THEN <<>> ELSE <<NL>>) \o ResultFor(k).text
             \o ResultsJoined(k + 1, FALSE)

\* The callback was called once for each line of the run, in line order,
\* with the line's index within the run, and the run was replaced in one
\* substitution.
CalledOncePerLine ==
    /\ RunBefore = FirstOfRun..LastOfRun
    /\ Len(call.called) = LastOfRun - FirstOfRun + 1
    /\ \A k \in DOMAIN call.called :
          /\ call.called[k].line = LinesBefore[FirstOfRun + k - 1]
          /\ call.called[k].index = k - 1
    /\ call.writes = 1

\* The buffer is the old one with the run replaced by text.
RunReplacedBy(text) ==
    value = Part(before.value, 0, LinesBefore[FirstOfRun].startsAt) \o text
                \o Rest(before.value, LinesBefore[LastOfRun].endsAt)

\* C10 as stated: replaceCurrentLines calls the callback once per line
\* meeting the selection (the caret's line when nothing is selected), in
\* order, with its index, and the new buffer is old[0..first.startsAt) +
\* the non-null results joined by newline + old[last.endsAt..), the run
\* replaced in a single substitution.
LinesReplacedByResults ==
    call.op = "replaceCurrentLines" =>
        CalledOncePerLine /\ RunReplacedBy(ResultsJoined(1, TRUE))

\* C10: as above, the joined results going into the buffer with the caret
\* markers they carry taken out.
LinesReplacedByUnmarkedResults ==
    call.op = "replaceCurrentLines" =>
        CalledOncePerLine /\ RunReplacedBy(Unmarked(ResultsJoined(1, TRUE)))

\* Two lines out of more were rewritten into results that tell the index
\* the callback was given.
TwoLinesRewrittenByIndex ==
    /\ call.op = "replaceCurrentLines" /\ call.callback = "index"
    /\ Len(call.called) = 2
    /\ Len(LinesBefore) > 2
    /\ value # before.value

\* The line of the caret was dropped by a callback returning null.
CaretLineDropped ==
    /\ call.op = "replaceCurrentLines" /\ call.callback = "null"
    /\ before.selectionStart = before.selectionEnd
    /\ Len(LinesBefore) > 1
    /\ Len(value) < Len(before.value)

\* The number of lines of text: its newlines and one.
LineCount(text) == Cardinality({i \in DOMAIN text : text[i] = NL}) + 1

\* The lines the last call was to rewrite, and those of them whose result
\* was null.
RunLength == LastOfRun - FirstOfRun + 1

NullResults == {k \in 1..RunLength : ResultFor(k).null}

\* C11: a line whose result is null contributes neither text nor separator:
\* with at least one line of the run kept the buffer loses one line per
\* null result; with every result null the run is replaced by the empty
\* string and one empty line stays in its place, the line count dropping
\* by k - 1 for a run of k lines.
NullResultsDropLines ==
    call.op = "replaceCurrentLines" =>
        IF Cardinality(NullResults) < RunLength
        THEN LineCount(value) = LineCount(before.value) - Cardinality(NullResults)
        ELSE /\ LineCount(value) = LineCount(before.value) - (RunLength - 1)
             /\ RunReplacedBy(<<>>)
             /\ Lines(value)[FirstOfRun].text = <<>>

\* Every line of a run of two, between other lines or next to one, got
\* null: one empty line stands where the two were.
WholeRunDropped ==
    /\ call.op = "replaceCurrentLines" /\ call.callback = "null"
    /\ RunLength = 2
    /\ LineCount(before.value) > 2
    /\ LinesBefore[FirstOfRun].text # <<>>
    /\ LineCount(value) = LineCount(before.value) - 1

\* The first line of a run of two was dropped and the second kept.
FirstOfTwoDropped ==
    /\ call.op = "replaceCurrentLines" /\ call.callback = "dropFirst"
    /\ RunLength = 2
    /\ LinesBefore[FirstOfRun].text # <<>>
    /\ LineCount(value) = LineCount(before.value) - 1

\* The content the last call wrote, when the results carry no marker.
NewContent == ResultsJoined(1, TRUE)

\* C12: after replaceCurrentLines with results that contain no marker, c
\* being the new content and a the start of the first selected line: by
\* default the caret is collapsed at a + len(c); with selectReplaced: true
\* the selection is [a, a + len(c)).
ReplacedLinesCaret ==
    (call.op = "replaceCurrentLines" /\ Unmarked(NewContent) = NewContent) =>
        IF "selectReplaced" \in call.options.given /\ call.options.selectReplaced
        THEN /\ selectionStart = LinesBefore[FirstOfRun].startsAt
             /\ selectionEnd = LinesBefore[FirstOfRun].startsAt + Len(NewContent)
        ELSE /\ selectionStart = LinesBefore[FirstOfRun].startsAt + Len(NewContent)
             /\ selectionEnd = selectionStart

\* A line that is not the first was rewritten, text following it, and the
\* new content left selected.
ReplacedContentSelected ==
    /\ call.op = "replaceCurrentLines" /\ call.callback = "prepend"
    /\ "selectReplaced" \in call.options.given /\ call.options.selectReplaced
    /\ FirstOfRun > 1 /\ LastOfRun < Len(LinesBefore)
    /\ selectionStart < selectionEnd
    /\ selectionEnd < Len(value)

\* The same with the default options: the caret after the new content.
ReplacedContentCaretAfter ==
    /\ call.op = "replaceCurrentLines" /\ call.callback = "prepend"
    /\ call.options.given = {}
    /\ FirstOfRun > 1 /\ LastOfRun < Len(LinesBefore)
    /\ selectionStart = selectionEnd
    /\ selectionEnd < Len(value)

(***************************************************************************)
(* replaceLine                                                             *)
(***************************************************************************)

\* The last call was replaceLine with a number that is no line's.
ReplaceLineOutOfRange ==
    /\ call.op = "replaceLine"
    /\ (call.lineNumber < 1 \/ call.lineNumber > LineCount(before.value))

\* C13: replaceLine(n, content) with n outside 1..lineCount, for a string
\* and for null alike, returns having reported exactly one error to the
\* console and leaves the buffer and the selection as they were, nothing
\* written to the surface.
UnknownLineReportedOnly ==
    ReplaceLineOutOfRange =>
        /\ call.errors = 1
        /\ call.writes = 0 /\ call.inputs = 0
        /\ SurfaceIs(before.value, before.selectionStart, before.selectionEnd)

\* A string was given for the line after the last of a buffer of several
\* lines with a selection.
LinePastLastReported ==
    /\ ReplaceLineOutOfRange
    /\ call.lineNumber = LineCount(before.value) + 1
    /\ ~call.content.null /\ call.content.text # <<>>
    /\ LineCount(before.value) > 1
    /\ selectionStart < selectionEnd
    /\ call.errors = 1

\* null was given for line 0.
LineZeroReported ==
    /\ ReplaceLineOutOfRange
    /\ call.lineNumber = 0 /\ call.content.null
    /\ value # <<>>
    /\ call.errors = 1

(***************************************************************************)
(* matchesShortcut.  What each shortcut of MatchShortcuts names, written   *)
(* out by hand: its key in lower case, and its modifiers among ctrl, meta, *)
(* alt and shift ('mod' is meta on a Mac and ctrl elsewhere).              *)
(***************************************************************************)

NamedKey(shortcut) ==
    CASE shortcut = <<"a">> -> <<"a">>
      [] shortcut = <<"A">> -> <<"a">>
      [] shortcut = <<"b">> -> <<"b">>
      [] shortcut = <<"t", "a", "b">> -> <<"t", "a", "b">>
      [] shortcut = <<"c", "t", "r", "l", "+", "b">> -> <<"b">>
      [] shortcut = <<"c", "t", "r", "l", "+", "s", "h", "i", "f", "t", "+", "a">> -> <<"a">>
      [] shortcut = <<"C", "t", "r", "l", "+", "S", "h", "i", "f", "t", "+", "A">> -> <<"a">>
      [] shortcut = <<"c", "o", "m", "m", "a", "n", "d", "+", "b">> -> <<"b">>
      [] shortcut = <<"c", "m", "d", "+", "a">> -> <<"a">>
      [] shortcut = <<"m", "o", "d", "+", "b">> -> <<"b">>
      [] shortcut = <<"o", "p", "t", "i", "o", "n", "+", "a">> -> <<"a">>
      [] shortcut = <<"a", "l", "t", "+", "a">> -> <<"a">>
      [] shortcut = <<"s", "h", "i", "f", "t", "+", "t", "a", "b">> -> <<"t", "a", "b">>
      [] shortcut = <<"c", "o", "m", "m", "a", "n", "d", "+", "b", "a", "c", "k", "s", "p", "a", "c", "e">> -> <<"b", "a", "c", "k", "s", "p", "a", "c", "e">>
      [] shortcut = <<"m", "e", "t", "a", "+", "c", "o", "n", "t", "r", "o", "l", "+", "a">> -> <<"a">>

NamedModifiers(shortcut, mac) ==
    CASE shortcut = <<"a">> -> {}
      [] shortcut = <<"A">> -> {}
      [] shortcut = <<"b">> -> {}
      [] shortcut = <<"t", "a", "b">> -> {}
      [] shortcut = <<"c", "t", "r", "l", "+", "b">> -> {"ctrl"}
      [] shortcut = <<"c", "t", "r", "l", "+", "s", "h", "i", "f", "t", "+", "a">> -> {"ctrl", "shift"}
      [] shortcut = <<"C", "t", "r", "l", "+", "S", "h", "i", "f", "t", "+", "A">> -> {"ctrl", "shift"}
      [] shortcut = <<"c", "o", "m", "m", "a", "n", "d", "+", "b">> -> {"meta"}
      [] shortcut = <<"c", "m", "d", "+", "a">> -> {"meta"}
      [] shortcut = <<"m", "o", "d", "+", "b">> -> IF mac THEN {"meta"} ELSE {"ctrl"}
      [] shortcut = <<"o", "p", "t", "i", "o", "n", "+", "a">> -> {"alt"}
      [] shortcut = <<"a", "l", "t", "+", "a">> -> {"alt"}
      [] shortcut = <<"s", "h", "i", "f", "t", "+", "t", "a", "b">> -> {"shift"}
      [] shortcut = <<"c", "o", "m", "m", "a", "n", "d", "+", "b", "a", "c", "k", "s", "p", "a", "c", "e">> -> {"meta"}
      [] shortcut = <<"m", "e", "t", "a", "+", "c", "o", "n", "t", "r", "o", "l", "+", "a">> -> {"meta", "ctrl"}

HeldModifiers(event) ==
    {m \in {"ctrl", "meta", "alt", "shift"} :
        \/ m = "ctrl" /\ event.ctrlKey
        \/ m = "meta" /\ event.metaKey
        \/ m = "alt" /\ event.altKey
        \/ m = "shift" /\ event.shiftKey}

Matched == call.op = "matchesShortcut" /\ call.result

KeyNameEquals == toLowerCase(call.event.key) = NamedKey(call.shortcut)

KeyCodeEquals == toLowerCase(call.event.code) = NamedKey(call.shortcut)

\* The code of a letter key is 'Key' and the letter: 'KeyA' for a.
KeyCodeOfLetter ==
    toLowerCase(call.event.code) = <<"k", "e", "y">> \o NamedKey(call.shortcut)

HeldExactlyAsNamed == HeldModifiers(call.event) = NamedModifiers(call.shortcut, onMac)

\* C14 as stated: a keydown event matches a shortcut if and only if the
\* event's key name or its physical code equals the shortcut's key, compared
\* without regard to case, and each of ctrl, meta, alt and shift is held
\* exactly when the shortcut names it.
MatchesByNameOrCode ==
    call.op = "matchesShortcut" =>
        (call.result <=> ((KeyNameEquals \/ KeyCodeEquals) /\ HeldExactlyAsNamed))

\* C14, amended: a keydown event matches a shortcut if and only if the
\* event's key name equals the shortcut's key, or its physical code equals
\* the key or 'Key' followed by the key (all compared without regard to
\* case), and each of ctrl, meta, alt and shift is held exactly when the
\* shortcut names it: a missing modifier and an extra held modifier are both
\* non-matches.
MatchesByNameCodeOrLetterCode ==
    call.op = "matchesShortcut" =>
        (call.result <=>
            ((KeyNameEquals \/ KeyCodeEquals \/ KeyCodeOfLetter) /\ HeldExactlyAsNamed))

\* 'ctrl+shift+a' or 'Ctrl+Shift+A' matched by an event whose key name is
\* another key's and whose code is 'KeyA', with ctrl and shift held.
MatchedByLetterCode ==
    /\ Matched
    /\ NamedModifiers(call.shortcut, onMac) = {"ctrl", "shift"}
    /\ ~KeyNameEquals
    /\ KeyCodeOfLetter

\* 'ctrl+shift+a' not matched by a with ctrl, shift and meta held.
ExtraModifierHeld ==
    /\ call.op = "matchesShortcut"
    /\ ~call.result
    /\ call.shortcut = <<"c", "t", "r", "l", "+", "s", "h", "i", "f", "t", "+", "a">>
    /\ KeyNameEquals
    /\ HeldModifiers(call.event) = {"ctrl", "shift", "meta"}

(***************************************************************************)
(* KeyboardShortcuts.  registered is every binding asked for, in the order *)
(* of the bind calls and of the array within a call.                       *)
(***************************************************************************)

MatchingRegistered(event) ==
    {i \in DOMAIN registered : matchesShortcut(event, registered[i].shortcut, onMac)}

EarliestMatching(event) ==
    CHOOSE i \in MatchingRegistered(event) : \A j \in MatchingRegistered(event) : i <= j

HandlerExpected(event) ==
    IF MatchingRegistered(event) = {} THEN <<>>
    ELSE <<registered[EarliestMatching(event)].handler>>

\* C15: for every keydown event, after any sequence of bind calls, at most
\* one handler is invoked: that of the earliest-registered binding matching
\* the event, in the order of the bind calls and of the array within one
\* call; later matching bindings are not invoked, and when no binding
\* matches no handler is invoked.
EarliestMatchingBindingWins ==
    call.op = "keydown" =>
        /\ Len(call.invoked) <= 1
        /\ ~resetCalled => call.invoked = HandlerExpected(call.event)

\* Two bindings with different handlers match the event; the first one's
\* handler was invoked.
TwoBindingsMatched ==
    /\ call.op = "keydown"
    /\ ~resetCalled
    /\ MatchingRegistered(call.event) = {1, 2}
    /\ registered[1].handler /= registered[2].handler
    /\ call.invoked = <<registered[1].handler>>

\* No binding of two matches the event, and nothing was invoked.
NoBindingMatched ==
    /\ call.op = "keydown"
    /\ ~resetCalled
    /\ Len(registered) = 2
    /\ MatchingRegistered(call.event) = {}
    /\ call.invoked = <<>>

\* C16: after reset() no handler is invoked for any later keydown event,
\* whatever was bound before the reset and whatever bind() calls came after
\* it.
InertAfterReset ==
    (call.op = "keydown" /\ resetCalled) => call.invoked = <<>>

\* A keydown event after a reset and a later bind of a shortcut that
\* matches it.
KeydownOnBindingAfterReset ==
    /\ call.op = "keydown"
    /\ resetCalled
    /\ \E i \in DOMAIN keyboard.bindings :
          matchesShortcut(call.event, keyboard.bindings[i].shortcut, onMac)
    /\ call.invoked = <<>>

(***************************************************************************)
(* The command registry.  origin.registry is the registry as it stood when *)
(* the last call was made, origin.call the call before the last one.       *)
(***************************************************************************)

Triggered == call.op = "trigger"

EntriesNamed(commands, name) == {i \in DOMAIN commands : commands[i].name = name}

KnownName(commands, name) == EntriesNamed(commands, name) /= {}

\* The last entry of the name, in registration order.
LastNamed(commands, name) ==
    commands[CHOOSE i \in EntriesNamed(commands, name) :
                \A j \in EntriesNamed(commands, name) : j <= i]

SurfaceKept == Surface = before

\* The call before the last one was a trigger of an unknown name.
FailedBefore ==
    /\ origin.call.op = "trigger"
    /\ ~KnownName(origin.registry.commands, origin.call.name)

Runnable(command) == command.enable /= "false" /\ command.handler /= "undefined"

\* C17: trigger with a name that is neither a built-in command's nor a
\* configured custom command's throws a TypeError, invokes no handler and
\* leaves the buffer and the selection unchanged, on every such call; the
\* registry is not altered by it, and a later trigger of a known command
\* still invokes that command's handler.
UnknownNameThrows ==
    Triggered =>
        /\ ~KnownName(origin.registry.commands, call.name) =>
              /\ call.threw = "TypeError"
              /\ call.invoked = <<>>
              /\ SurfaceKept
              /\ registry = origin.registry
        /\ (/\ FailedBefore
            /\ KnownName(registry.commands, call.name)
            /\ Runnable(LastNamed(registry.commands, call.name))) =>
              /\ call.threw = "none"
              /\ call.invoked = <<LastNamed(registry.commands, call.name).handler>>

\* An unknown name triggered twice in a row, on a buffer with a selection
\* and a registry with a custom command.
UnknownTriggeredTwice ==
    /\ Triggered
    /\ ~KnownName(registry.commands, call.name)
    /\ FailedBefore
    /\ KnownName(registry.commands, "custom")
    /\ selectionStart < selectionEnd
    /\ call.threw = "TypeError"

\* bold triggered, and run, after a trigger that failed.
BoldAfterFailure ==
    /\ Triggered
    /\ FailedBefore
    /\ call.invoked = <<"boldCommandHandler">>
    /\ ~SurfaceKept

HasCustomWithoutHandler(commands) ==
    \E i \in DOMAIN commands :
        commands[i].name \notin BuiltInNames /\ commands[i].handler = "undefined"

\* C18: setting up the registry with a custom (not built-in) command that
\* has no handler fails with a TypeError in the setup itself; no trigger is
\* returned, so no registry holding such a command ever takes a trigger.
CustomWithoutHandlerRefused ==
    /\ (call.op = "bootstrap" /\ HasCustomWithoutHandler(call.commands)) =>
          (call.threw = "TypeError" /\ registry.state /= "ready")
    /\ registry.state = "ready" => ~HasCustomWithoutHandler(registry.commands)
    /\ Triggered => ~HasCustomWithoutHandler(origin.registry.commands)

\* A setup refused for its second command, the first being a custom
\* command with a handler.
SecondCommandRefused ==
    /\ call.op = "bootstrap"
    /\ Len(call.commands) = 2
    /\ call.commands[1].name = "custom" /\ call.commands[1].handler /= "undefined"
    /\ call.commands[2].name = "custom" /\ call.commands[2].handler = "undefined"
    /\ call.threw = "TypeError"
    /\ registry.state = "failed"

\* C19: trigger of a known command whose enable flag is false returns
\* without throwing and without invoking the command's handler, on every
\* call; the buffer and the selection are unchanged.
DisabledCommandSkipped ==
    (/\ Triggered
     /\ KnownName(origin.registry.commands, call.name)
     /\ LastNamed(origin.registry.commands, call.name).enable = "false") =>
        /\ call.threw = "none"
        /\ call.invoked = <<>>
        /\ SurfaceKept

\* A disabled custom command that has a handler, triggered twice in a row.
DisabledTriggeredTwice ==
    /\ Triggered
    /\ origin.call.op = "trigger"
    /\ origin.call.name = call.name
    /\ KnownName(registry.commands, call.name)
    /\ LastNamed(registry.commands, call.name).enable = "false"
    /\ LastNamed(registry.commands, call.name).handler = "h1"
    /\ call.invoked = <<>>

BuiltInOverridden ==
    /\ Triggered
    /\ call.name = "bold"
    /\ call.invoked = <<"h1">>
    /\ SurfaceKept

(***************************************************************************)
(* getIncrementedOrderedListPrefix.  drawn holds the segments the prefix   *)
(* was written from.                                                       *)
(***************************************************************************)

Incremented == call.op = "getIncrementedOrderedListPrefix"

LastSegment == drawn.segments[Len(drawn.segments)]

EarlierSegments == SubSeq(drawn.segments, 1, Len(drawn.segments) - 1)

DigitsOf(segment) == StripZeros([i \in DOMAIN segment |-> DigitOf(segment[i])])

CharsOf(digits) == [i \in DOMAIN digits |-> DigitChars[digits[i] + 1]]

\* 'n1.n2. ... .(nk+1).'
PrefixExpected == Dotted(Append(EarlierSegments, CharsOf(Succ(DigitsOf(LastSegment)))))

\* C24 as stated: for a prefix of k >= 1 dot-separated non-negative
\* integers with a trailing dot, with or without whitespace around it, the
\* result is the same prefix with only its last segment changed, to the
\* integer one larger, and no whitespace around it.
LastSegmentIncremented ==
    Incremented => call.result = PrefixExpected

\* C24, amended: the same, for a last segment of at most 2^53 - 1, the
\* largest integer whose successor a double holds exactly.
SafeLastSegmentIncremented ==
    (Incremented /\ Less(DigitsOf(LastSegment), TwoTo53)) => call.result = PrefixExpected

\* ' 1.99. ' gives '1.100.': a segment kept, the number of digits grown,
\* the whitespace gone.
NinetyNineIncremented ==
    /\ Incremented
    /\ drawn.segments = <<<<"1">>, <<"9", "9">>>>
    /\ drawn.lead = <<" ">> /\ drawn.trail = <<" ">>
    /\ call.result = <<"1", ".", "1", "0", "0", ".">>

(***************************************************************************)
(* replace.                                                                *)
(***************************************************************************)

Replaced == call.op = "replace"

\* The indexes at which the search text occurs in the buffer as it was.
OccurrencesBefore ==
    {i \in 0..(Len(before.value) - Len(call.searchText)) :
        SubSeq(before.value, i + 1, i + Len(call.searchText)) = call.searchText}

FirstOccurrence == CHOOSE i \in OccurrencesBefore : \A j \in OccurrencesBefore : i <= j

\* C27: replace(searchText, replacement) replaces only the first occurrence
\* of searchText: the new buffer is old[0..i) + replacement +
\* old[i+len(searchText)..) for the lowest index i of searchText; when
\* searchText does not occur the buffer and the selection are unchanged; in
\* both cases the scroll offset is after the call what it was before it.
ReplacesFirstOccurrence ==
    Replaced =>
        /\ OccurrencesBefore /= {} =>
              value = Part(before.value, 0, FirstOccurrence) \o call.replacement
                        \o Rest(before.value, FirstOccurrence + Len(call.searchText))
        /\ OccurrencesBefore = {} => Surface = before
        /\ call.scrollTop = call.scrollTopBefore

\* 'a' replaced in a buffer that holds it twice, after a line break, the
\* textarea scrolled down.
FirstOfTwoReplaced ==
    /\ Replaced
    /\ call.searchText = <<"a">>
    /\ Cardinality(OccurrencesBefore) = 2
    /\ FirstOccurrence > 0
    /\ call.replacement = <<"b">>
    /\ call.scrollTopBefore = 40
    /\ value /= before.value

\* A search text the buffer does not hold.
SearchTextAbsent ==
    /\ Replaced
    /\ OccurrencesBefore = {}
    /\ before.selectionStart < before.selectionEnd

(***************************************************************************)
(* replaceLine(n, null)                                                    *)
(***************************************************************************)

\* The last call was replaceLine(n, null) for a line n of a buffer of at
\* least two lines.
LineRemovalAsked ==
    /\ call.op = "replaceLine"
    /\ call.content.null
    /\ call.lineNumber \in 1..LineCount(before.value)
    /\ LineCount(before.value) >= 2

\* The sequence without its n-th element.
Without(seq, n) == [i \in 1..(Len(seq) - 1) |-> IF i < n THEN seq[i] ELSE seq[i + 1]]

\* The lines of the buffer as it was without line n, joined by newlines.
OtherLinesJoined == Join(Without(Split(before.value), call.lineNumber))

\* C28: replaceLine(n, null) for a line n of a buffer of at least two
\* lines, be it the first, a middle or the last line, removes the line and
\* exactly one adjacent line separator: the buffer is its former lines
\* without line n, in order, joined by newlines.
LineRemovedWithSeparator ==
    LineRemovalAsked => value = OtherLinesJoined

\* What holds of C28: the lines after the first are removed as stated.
LaterLineRemovedWithSeparator ==
    (LineRemovalAsked /\ call.lineNumber > 1) =>
        /\ value = OtherLinesJoined
        /\ LineCount(value) = LineCount(before.value) - 1

\* The first line of several was to be removed, and the buffer is not the
\* other lines.
FirstLineNotRemoved ==
    /\ LineRemovalAsked
    /\ call.lineNumber = 1
    /\ value /= OtherLinesJoined

\* A middle line was removed.
MiddleLineRemoved ==
    /\ LineRemovalAsked
    /\ call.lineNumber = 2
    /\ LineCount(before.value) = 3
    /\ value = OtherLinesJoined

(***************************************************************************)
(* The input notifications of a call.                                      *)
(***************************************************************************)

\* The last call was one that substitutes text: insert, wrap,
\* replaceCurrentLines, replaceLine for a line the buffer has, replace for
\* a search text the buffer holds.
MutatingCall ==
    \/ call.op \in {"insert", "wrap", "replaceCurrentLines"}
    \/ call.op = "replaceLine" /\ call.lineNumber \in 1..LineCount(before.value)
    \/ call.op = "replace" /\ IndexOfString(before.value, call.searchText) /= -1

\* C26: every call of a mutating operation produces exactly one input
\* notification on the text surface, never none and never more than one,
\* whichever path makes the substitution: the native insert command, the
\* manual fallback, or the test-environment branch of insert.
OneInputPerCall ==
    MutatingCall => call.inputs = 1

\* What holds of C26: one notification per call outside the test
\* environment.
OneInputPerCallOutsideTests ==
    (MutatingCall /\ nodeEnv /= "test") => call.inputs = 1

\* insert in the test environment: the text was written and no
\* notification made.
InsertedSilently ==
    /\ call.op = "insert"
    /\ nodeEnv = "test"
    /\ value /= before.value
    /\ call.writes = 1
    /\ call.inputs = 0

(***************************************************************************)
(* Sequences of calls on the Cursor.                                       *)
(***************************************************************************)

NoMarkerInBuffer == ~Includes(value, MARKER)

\* A content of three markers was inserted.
ThreeMarkersInserted ==
    /\ call.op = "insert"
    /\ call.markers = 3
    /\ value /= before.value
    /\ NoMarkerInBuffer

\* wrap was given a marker in its markup or its placeholder.
MarkerInMarkup ==
    /\ call.op = "wrap"
    /\ call.markers = 1
    /\ value /= before.value
    /\ NoMarkerInBuffer

(***************************************************************************)
(* The commands of the lines.                                              *)
(***************************************************************************)

\* The number of the line the caret was in when the last call was made.
CaretLineBefore ==
    Cardinality({i \in 1..before.selectionStart : before.value[i] = NL}) + 1

\* The texts of the lines before the last call and after it.
TextsBefore == Split(before.value)

TextsNow == Split(value)

\* The decimal digits of a positive number.
RECURSIVE Decimal(_)
Decimal(i) ==
    IF i < 10 THEN <<DigitChars[i + 1]>>
    ELSE Decimal(i \div 10) \o <<DigitChars[(i % 10) + 1]>>

HeadlineApplied == call.op = "headline"

\* k = min(max(n, 1), 6) for the requested level n
TargetLevel ==
    IF call.level < 1 THEN 1 ELSE IF call.level > 6 THEN 6 ELSE call.level

\* j '#' characters and a space
PrefixOfLevel(j) == [i \in 1..(j + 1) |-> IF i <= j THEN "#" ELSE " "]

\* The text starts with exactly j '#' characters and a space.
AtLevel(text, j) == Len(text) > j /\ SubSeq(text, 1, j + 1) = PrefixOfLevel(j)

\* The caret's line as the headline command of level k is to leave it.
HeadlineExpected(text, k) ==
    IF AtLevel(text, k) THEN Rest(text, k + 1)
    ELSE IF \E j \in 1..6 : AtLevel(text, j)
    THEN PrefixOfLevel(k) \o Rest(text, (CHOOSE j \in 1..6 : AtLevel(text, j)) + 1)
    ELSE IF text = <<>>
    THEN PrefixOfLevel(k) \o <<"h", "e", "a", "d", "l", "i", "n", "e", " ">> \o Decimal(k)
    ELSE PrefixOfLevel(k) \o text

\* C21: a headline command of requested level n acts at the level
\* k = min(max(n, 1), 6) on the caret's line: a line with no '#' prefix gets
\* k '#' and a space put first (the empty line with 'headline k' as its
\* text), a line at level k loses its prefix, a line at another level gets
\* the prefix of level k in place of its own; the other lines stay.
HeadlineActsAtClampedLevel ==
    HeadlineApplied =>
        TextsNow = [TextsBefore EXCEPT
                      ![CaretLineBefore] = HeadlineExpected(@, TargetLevel)]

\* A request of level 10 on a line of level 2 leaves the line at level 6.
LevelTwoRaisedToSix ==
    /\ HeadlineApplied
    /\ call.level = 10
    /\ AtLevel(TextsBefore[CaretLineBefore], 2)
    /\ AtLevel(TextsNow[CaretLineBefore], 6)

OrderedListApplied == call.op = "orderedList"

\* The number of digits the text starts with.
DigitsAtStart(text) ==
    Cardinality({d \in 1..Len(text) : \A i \in 1..d : IsDigit(text[i])})

\* The text starts with digits, a dot and a space.
IsNumbered(text) ==
    /\ DigitsAtStart(text) > 0
    /\ Len(text) >= DigitsAtStart(text) + 2
    /\ text[DigitsAtStart(text) + 1] = "."
    /\ text[DigitsAtStart(text) + 2] = " "

\* The text without the number it starts with.
WithoutNumber(text) ==
    IF IsNumbered(text) THEN Rest(text, DigitsAtStart(text) + 2) ELSE text

\* Line i of the buffer as the ordered-list command is to leave it.
OrderedListExpected(i) ==
    IF i \notin RunBefore THEN TextsBefore[i]
    ELSE IF IsNumbered(TextsBefore[FirstOfRun]) THEN WithoutNumber(TextsBefore[i])
    ELSE Decimal(i - FirstOfRun + 1) \o <<".", " ">> \o TextsBefore[i]

\* C22: the ordered-list command acts on the run of lines the selection
\* touches, or the caret's line: with the first line of the run numbered,
\* the lines of the run lose their numbers; else line i of the run gets
\* 'i. ' put first, counting from 1; the lines outside the run stay.
OrderedListNumbersOrUnnumbers ==
    OrderedListApplied =>
        TextsNow = [i \in DOMAIN TextsBefore |-> OrderedListExpected(i)]

\* Ten selected lines numbered: the tenth is '10. a'.
TenLinesNumbered ==
    /\ OrderedListApplied
    /\ before.value = TenLines
    /\ RunLength = 10
    /\ TextsNow[1] = <<"1", ".", " ", "a">>
    /\ TextsNow[10] = <<"1", "0", ".", " ", "a">>

\* The lines the first application of the series acted on.
LinesAtStart == Lines(call.start.value)

BlockAtStart ==
    {i \in DOMAIN LinesAtStart :
        Meets(LinesAtStart[i], call.start.selectionStart, call.start.selectionEnd)}

\* The first application numbered the block: its first line had no number.
FirstApplicationNumbered ==
    /\ OrderedListApplied
    /\ \A i \in BlockAtStart :
          (\A j \in BlockAtStart : i <= j) => ~IsNumbered(LinesAtStart[i].text)

\* The buffer the first application left, the numbers of the block taken off.
FirstWithoutNumbers ==
    [i \in DOMAIN Split(call.first) |->
        IF i \in BlockAtStart THEN WithoutNumber(Split(call.first)[i])
        ELSE Split(call.first)[i]]

BlockQuotesApplied == call.op = "blockQuotes"

\* The text starts with '> '.
IsQuoted(text) == Len(text) >= 2 /\ text[1] = ">" /\ text[2] = " "

\* The caret's line as the block-quotes toggle is to leave it.
BlockQuotesExpected(text) ==
    IF IsQuoted(text) THEN Rest(text, 2)
    ELSE IF text = <<>> THEN <<">", " ", "q", "u", "o", "t", "e">>
    ELSE <<">", " ">> \o text

\* C25: the block-quotes command toggles the '> ' prefix of the caret's
\* line: a line that starts with '> ' loses it, any other line gets it put
\* first, and the empty line becomes '> quote'.
BlockQuotesToggles ==
    BlockQuotesApplied =>
        TextsNow = [TextsBefore EXCEPT ![CaretLineBefore] = BlockQuotesExpected(@)]

\* The part of C25 about lines without the prefix.
BlockQuotesAdded ==
    (BlockQuotesApplied /\ ~IsQuoted(TextsBefore[CaretLineBefore])) =>
        TextsNow = [TextsBefore EXCEPT ![CaretLineBefore] = BlockQuotesExpected(@)]

\* The command called on '> a' with the caret at its start leaves '> a'.
QuotedLineKept ==
    /\ BlockQuotesApplied
    /\ before.value = <<">", " ", "a">>
    /\ before.selectionStart = 0
    /\ value = before.value

=============================================================================
